---- MODULE Spec2Model ----
(***************************************************************************)
(* Reconciliation engine of blue-railroad-import: token aggregation,       *)
(* token/submission matching and the submission-template field mutator.   *)
(*                                                                         *)
(* Python values are represented as follows.                               *)
(*   Optional[x]   : <<>> for None, <<x>> for a present value.             *)
(*   dict          : a sequence of [k, v] entries in insertion order, with *)
(*                   pairwise distinct keys (Python dicts iterate in       *)
(*                   insertion order; assignment to an existing key keeps  *)
(*                   the key's position).                                  *)
(*   str (wikitext): a sequence of symbols, see the field mutator below.   *)
(***************************************************************************)
EXTENDS Integers, Sequences, FiniteSets, TLC

VARIABLES
    phase,          \* which specification's operation has been applied
    chain_data,     \* the snapshot: source key -> dict token_id -> token_data
    sources,        \* config.sources, as the list of chain_data_key
    all_tokens,     \* dict token_id -> Token (result of aggregation / input of matching)
    submissions,    \* list[Submission]
    ens_mapping,    \* dict ENS name -> address
    result,         \* dict submission id -> list of token ids returned by the last call
    wikitext,       \* update_submission_field: input text
    field_name,     \* update_submission_field: field_name
    field_value,    \* update_submission_field: field_value
    out1,           \* result of the first update_submission_field call
    out2,           \* result of the second call, applied to the first call's text
    pages,          \* the wiki: dict page title -> page text
    save_calls,     \* the save_page calls made so far, as [title, content]
    arg,            \* the arguments of the call under study
    ret             \* what the call under study returned

vars == <<phase, chain_data, sources, all_tokens, submissions, ens_mapping,
          result, wikitext, field_name, field_value, out1, out2,
          pages, save_calls, arg, ret>>

\* the variables of the wiki and of the calls made against it
storeVars == <<pages, save_calls, arg, ret>>

----------------------------------------------------------------------------
(* Bounds *)

MaxTokens == 2
MaxSubs == 2
MaxFields == 2

----------------------------------------------------------------------------
(* Generic helpers *)

None == <<>>

Some(x) == <<x>>

IsNone(o) == o = <<>>

Range(s) == {s[i] : i \in 1..Len(s)}

\* a local variable: v is computed once and F continues with its value
Bind(v, F(_)) == CHOOSE r \in {F(x) : x \in {v}} : TRUE

\* sequences over S of length 0..n
SeqsUpTo(S, n) == UNION {[1..k -> S] : k \in 0..n}

\* Python dict as an insertion-ordered sequence of [k, v] entries
DictKeys(d) == {d[i].k : i \in 1..Len(d)}

DictHas(d, key) == \E i \in 1..Len(d) : d[i].k = key

DictVal(d, key) == d[CHOOSE i \in 1..Len(d) : d[i].k = key].v

\* d[key] = val : replaces in place when the key exists, appends otherwise
DictSet(d, key, val) ==
    IF DictHas(d, key)
    THEN [i \in 1..Len(d) |-> IF d[i].k = key THEN [k |-> key, v |-> val] ELSE d[i]]
    ELSE Append(d, [k |-> key, v |-> val])

\* all dicts with at most n entries, keys from K (distinct), values from V
DictsUpTo(K, V, n) ==
    {d \in SeqsUpTo([k : K, v : V], n) :
        \A i, j \in 1..Len(d) : i # j => d[i].k # d[j].k}

----------------------------------------------------------------------------
(* Token ids: canonical decimal strings, as the JSON keys of the snapshot. *)

IdStr == <<"1", "2", "3", "4">>

TokenIds == {IdStr[i] : i \in 1..MaxTokens}

\* int(token_id_str)
IntOf(s) == CHOOSE i \in 1..Len(IdStr) : IdStr[i] = s

----------------------------------------------------------------------------
(* models.py: Token *)

\* Token.is_v2
is_v2(token) == ~IsNone(token.blockheight)

\* A record of the snapshot is a record of the keys it has.  A value is None
\* (null), Some(x) (a scalar) or, for the keys named in the "lists" field, the
\* sequence of the items of a JSON list.

\* token_data.get(key)
Get(data, key) == IF key \in DOMAIN data THEN data[key] ELSE None

\* isinstance(val, list)
IsList(data, key) == "lists" \in DOMAIN data /\ key \in data.lists

\* chain_data.py: extract_value in parse_token
extract_value(data, key) ==
    LET val == Get(data, key)
    IN  IF IsList(data, key)
        THEN (IF val # <<>> THEN Some(val[1]) ELSE None)
        ELSE val

\* str(n) of a songId
SongStr(n) == IdStr[n]

\* chain_data.py: parse_token
parse_token(token_id, token_data, source_key) ==
    LET owner == IF "owner" \in DOMAIN token_data THEN token_data.owner ELSE ""
        song == extract_value(token_data, "songId")
    IN  [token_id      |-> token_id,
         source_key    |-> source_key,
         owner         |-> owner,
         owner_display |-> IF "ownerDisplay" \in DOMAIN token_data
                           THEN token_data.ownerDisplay ELSE owner,
         song_id       |-> IF ~IsNone(song) /\ song[1] # 0
                           THEN Some(SongStr(song[1])) ELSE None,
         date          |-> extract_value(token_data, "date"),
         uri           |-> Get(token_data, "uri"),
         blockheight   |-> extract_value(token_data, "blockheight"),
         video_hash    |-> Get(token_data, "videoHash")]

\* chain_data.py: iter_tokens_from_source; chain_data.get(key, {})
iter_tokens_from_source(cd, source) ==
    LET source_data == IF source \in DOMAIN cd THEN cd[source] ELSE <<>>
    IN  [i \in 1..Len(source_data) |->
            parse_token(source_data[i].k, source_data[i].v, source)]

\* the body of the loops of aggregate_tokens_from_sources for one token
AggregateStepKeepFirst(acc, token) ==
    IF ~DictHas(acc, token.token_id)
    THEN DictSet(acc, token.token_id, token)
    ELSE acc

AggregateStepLastWins(acc, token) ==
    DictSet(acc, token.token_id, token)

AggregateStep(acc, token) ==
    IF ~DictHas(acc, token.token_id)
    THEN DictSet(acc, token.token_id, token)
    ELSE IF is_v2(token) /\ ~is_v2(DictVal(acc, token.token_id))
         THEN DictSet(acc, token.token_id, token)
         ELSE acc

RECURSIVE AggregateTokens(_, _)
AggregateTokens(acc, toks) ==
    IF toks = <<>> THEN acc
    ELSE AggregateTokens(AggregateStep(acc, Head(toks)), Tail(toks))

RECURSIVE AggregateSources(_, _, _)
AggregateSources(acc, cd, srcs) ==
    IF srcs = <<>> THEN acc
    ELSE AggregateSources(
            AggregateTokens(acc, iter_tokens_from_source(cd, Head(srcs))),
            cd, Tail(srcs))

\* chain_data.py: aggregate_tokens_from_sources
aggregate_tokens_from_sources(cd, srcs) == AggregateSources(<<>>, cd, srcs)

----------------------------------------------------------------------------
(* Specification of the token aggregator *)

SourceKeys == {"blueRailroads", "blueRailroadV2s"}

LegacyData ==
    [owner |-> "0xAA", date |-> Some(20240101), uri |-> Some("ipfs://bafy1"),
     blockheight |-> None, videoHash |-> None]

CurrentData ==
    [owner |-> "0xAA", date |-> None, uri |-> None,
     blockheight |-> Some(100), videoHash |-> Some("h1")]

TokenDatas == {LegacyData, CurrentData}

\* source lists without repetition
SourceLists ==
    {s \in SeqsUpTo(SourceKeys, Cardinality(SourceKeys)) :
        \A i, j \in 1..Len(s) : i # j => s[i] # s[j]}

StoreIdle ==
    /\ pages = <<>>
    /\ save_calls = <<>>
    /\ arg = <<>>
    /\ ret = <<>>

Idle ==
    /\ submissions = <<>>
    /\ ens_mapping = <<>>
    /\ result = <<>>
    /\ wikitext = <<>>
    /\ field_name = ""
    /\ field_value = <<>>
    /\ out1 = None
    /\ out2 = None
    /\ StoreIdle

InitAggregate ==
    /\ phase = "input"
    /\ chain_data \in [SourceKeys -> DictsUpTo(TokenIds, TokenDatas, MaxTokens)]
    /\ sources \in SourceLists
    /\ all_tokens = <<>>
    /\ Idle

\* load_tokens: aggregate the snapshot under the configured sources
Aggregate ==
    /\ phase = "input"
    /\ phase' = "aggregated"
    /\ all_tokens' = aggregate_tokens_from_sources(chain_data, sources)
    /\ UNCHANGED <<chain_data, sources, submissions, ens_mapping, result,
                   wikitext, field_name, field_value, out1, out2>>
    /\ UNCHANGED storeVars

NextAggregate == Aggregate

SpecAggregate == InitAggregate /\ [][NextAggregate]_vars

\* the sources of the list, in list order, that hold a record for id
ListedWith(id) ==
    {i \in 1..Len(sources) : DictHas(chain_data[sources[i]], id)}

RecordIsCurrent(i, id) ==
    ~IsNone(DictVal(chain_data[sources[i]], id).blockheight)

ParsedFrom(i, id) ==
    parse_token(id, DictVal(chain_data[sources[i]], id), sources[i])

\* C1: a token_id present under a legacy record and under a current-version
\* record of the listed sources is aggregated to a current-version record,
\* whichever of the two sources is listed first.
C1_VersionPrecedence ==
    phase = "aggregated" =>
        \A id \in TokenIds :
            (/\ \E i \in ListedWith(id) : RecordIsCurrent(i, id)
             /\ \E i \in ListedWith(id) : ~RecordIsCurrent(i, id))
            => /\ DictHas(all_tokens, id)
               /\ is_v2(DictVal(all_tokens, id))
               /\ \E i \in ListedWith(id) :
                     /\ RecordIsCurrent(i, id)
                     /\ DictVal(all_tokens, id) = ParsedFrom(i, id)

\* the legacy record is listed first and is replaced by the later current one
C1_Witness ==
    /\ phase = "aggregated"
    /\ \E id \in TokenIds :
          /\ Len(sources) = 2
          /\ ListedWith(id) = {1, 2}
          /\ ~RecordIsCurrent(1, id)
          /\ RecordIsCurrent(2, id)
          /\ DictVal(all_tokens, id).source_key = sources[2]

\* C2: records of one version class under the same token_id: the record of
\* the source listed first is kept; the result has exactly one entry per
\* distinct token_id of the listed sources.
C2_FirstSourceWins ==
    phase = "aggregated" =>
        /\ DictKeys(all_tokens) = {id \in TokenIds : ListedWith(id) # {}}
        /\ Len(all_tokens) = Cardinality(DictKeys(all_tokens))
        /\ \A id \in TokenIds :
              (/\ ListedWith(id) # {}
               /\ \A i, j \in ListedWith(id) :
                     RecordIsCurrent(i, id) = RecordIsCurrent(j, id))
              => LET first == CHOOSE i \in ListedWith(id) :
                                 \A j \in ListedWith(id) : i <= j
                 IN  DictVal(all_tokens, id) = ParsedFrom(first, id)

\* two listed sources hold a record of the same class for one id
C2_Witness ==
    /\ phase = "aggregated"
    /\ \E id \in TokenIds :
          /\ ListedWith(id) = {1, 2}
          /\ RecordIsCurrent(1, id) = RecordIsCurrent(2, id)
          /\ DictVal(all_tokens, id).source_key = sources[1]

----------------------------------------------------------------------------
(***************************************************************************)
(* submission.py: update_submission_field                                  *)
(*                                                                         *)
(* Wikitext is a sequence of symbols.  "T" is the text                     *)
(* "{{Blue Railroad Submission" (in any letter case, the template pattern  *)
(* is compiled with re.IGNORECASE), "P" is "{{Blue Railroad Participant",  *)
(* "f", "F" are one field name in lower and in upper case, "g" is another  *)
(* field name, "a" and "b" are value text free of markup, and "|", "=",   *)
(* "}", " " and "\n" are themselves.                                       *)
(***************************************************************************)

IsSpace(c) == c \in {" ", "\n"}

\* letter-case folding of a symbol (re.IGNORECASE)
Fold(c) == IF c = "F" THEN "f" ELSE c

Slice(s, a, b) == IF a > b THEN <<>> ELSE SubSeq(s, a, b)

\* index of the first position >= from that satisfies nothing of \s, i.e. the
\* end of a greedy \s* started at from
RECURSIVE SkipSpace(_, _)
SkipSpace(s, from) ==
    IF from <= Len(s) /\ IsSpace(s[from]) THEN SkipSpace(s, from + 1) ELSE from

\* str.rstrip()
RECURSIVE RStrip(_)
RStrip(s) ==
    IF s # <<>> /\ IsSpace(s[Len(s)]) THEN RStrip(Slice(s, 1, Len(s) - 1)) ELSE s

\* str.lstrip()
LStrip(s) == Slice(s, SkipSpace(s, 1), Len(s))

\* str.strip()
Strip(s) == LStrip(RStrip(s))

\* positions of "}}" at or after from
CloseAt(s, from) == {e \in from..(Len(s) - 1) : s[e] = "}" /\ s[e + 1] = "}"}

Min(S) == CHOOSE x \in S : \A y \in S : x <= y

\* re.search(r'(\{\{Blue Railroad Submission\s*)(.*?)(\}\})', wikitext,
\*           re.DOTALL | re.IGNORECASE)
\* [found, start, body_from, close] : the match spans start..close+1, group 1
\* is start..body_from-1, group 2 is body_from..close-1
TemplateMatch(text) ==
    LET starts == {i \in 1..Len(text) :
                      text[i] = "T" /\ CloseAt(text, SkipSpace(text, i + 1)) # {}}
    IN  IF starts = {}
        THEN [found |-> FALSE, start |-> 0, body_from |-> 0, close |-> 0]
        ELSE LET i == Min(starts)
                 b == SkipSpace(text, i + 1)
             IN  [found |-> TRUE, start |-> i, body_from |-> b,
                  close |-> Min(CloseAt(text, b))]

\* re.search(rf'\|{field_name}\s*=\s*[^\|]*', template_body, re.IGNORECASE)
\* [found, from, to] : the match is body[from..to]
FieldMatch(body, name) ==
    LET starts == {p \in 1..(Len(body) - 1) :
                      /\ body[p] = "|"
                      /\ Fold(body[p + 1]) = Fold(name)
                      /\ LET e == SkipSpace(body, p + 2)
                         IN  e <= Len(body) /\ body[e] = "="}
    IN  IF starts = {}
        THEN [found |-> FALSE, from |-> 0, to |-> 0]
        ELSE LET p == Min(starts)
                 e == SkipSpace(body, p + 2)
                 bars == {q \in (e + 1)..Len(body) : body[q] = "|"}
             IN  [found |-> TRUE, from |-> p,
                  to |-> IF bars = {} THEN Len(body) ELSE Min(bars) - 1]

\* f"|{field_name}={field_value}"
FieldLine(name, value) == <<"|", name, "=">> \o value

\* the branch "Update existing field"
ReplaceField(body, m, name, value) ==
    Slice(body, 1, m.from - 1) \o FieldLine(name, value)
        \o Slice(body, m.to + 1, Len(body))

\* the branch "Add new field before the closing }}"
AppendField(body, name, value) ==
    LET stripped == RStrip(body)
        nl == IF stripped # <<>> /\ stripped[Len(stripped)] = "\n"
              THEN stripped ELSE stripped \o <<"\n">>
    IN  nl \o FieldLine(name, value) \o <<"\n">>

\* old_value.strip() == new_value.strip()
SameFieldExact(old_value, new_value) == old_value = new_value

SameField(old_value, new_value) == Strip(old_value) = Strip(new_value)

\* wikitext[:match.start()] + template_start + new_body + template_end
\*     + wikitext[match.end():]
ReassembleDropTail(text, match, new_body) ==
    Slice(text, 1, match.start - 1)
        \o Slice(text, match.start, match.body_from - 1)
        \o new_body
        \o Slice(text, match.close, match.close + 1)

Reassemble(text, match, new_body) ==
    Slice(text, 1, match.start - 1)
        \o Slice(text, match.start, match.body_from - 1)
        \o new_body
        \o Slice(text, match.close, match.close + 1)
        \o Slice(text, match.close + 2, Len(text))

\* a ValueError is the result with raised = TRUE
update_submission_field(text, name, value) ==
    LET match == TemplateMatch(text)
    IN  IF ~match.found
        THEN [raised |-> TRUE, text |-> <<>>, changed |-> FALSE]
        ELSE
          LET template_body == Slice(text, match.body_from, match.close - 1)
              existing == FieldMatch(template_body, name)
              old_value == Slice(template_body, existing.from, existing.to)
              new_value == FieldLine(name, value)
          IN  IF existing.found /\ SameField(old_value, new_value)
              THEN [raised |-> FALSE, text |-> text, changed |-> FALSE]
              ELSE
                LET new_body ==
                        IF existing.found
                        THEN ReplaceField(template_body, existing, name, value)
                        ELSE AppendField(template_body, name, value)
                IN  [raised |-> FALSE,
                     text |-> Reassemble(text, match, new_body),
                     changed |-> TRUE]

----------------------------------------------------------------------------
(* Specification of the field mutator: one call, then a second call with   *)
(* the same field and value on the text the first call returned.           *)

\* field lines of a template body
Lines ==
    { <<"|", "f", "=", "a", "\n">>,
      <<"|", "F", "=", "a", "\n">>,
      <<"|", "f", " ", "=", "a", "\n">>,
      <<"|", "f", "=", " ", "a", "\n">>,
      <<"|", "f", "=", "b", "\n">>,
      <<"|", "f", "=", "a">>,
      <<"|", "g", "=", "a", "\n">>,
      <<"|", "g", "=", "b">>,
      <<"|", "f", "=", "\n">> }

RECURSIVE Concat(_)
Concat(ss) == IF ss = <<>> THEN <<>> ELSE Head(ss) \o Concat(Tail(ss))

Bodies == {Concat(ls) : ls \in SeqsUpTo(Lines, MaxFields)}

\* text before the first submission template
Pres == { <<>>, <<"a", "\n", "P", "|", "g", "=", "a", "}", "}", "\n">> }

\* the template's opening, with and without a line break after the name
Heads == { <<"T", "\n">>, <<"T">> }

\* text after the template: nothing, a participant template, a second
\* submission template
Posts ==
    { <<>>,
      <<"\n", "P", "\n", "|", "f", "=", "b", "\n", "}", "}", "\n", "a">>,
      <<"\n", "T", "\n", "|", "f", "=", "b", "\n", "}", "}">> }

\* pages without a (closed) submission template
NoTemplateTexts == { <<"a", "\n">>, <<"T", "\n", "|", "f", "=", "a", "\n">> }

Wikitexts ==
    {pre \o head \o body \o <<"}", "}">> \o post :
        pre \in Pres, head \in Heads, body \in Bodies, post \in Posts}
    \cup NoTemplateTexts

FieldNames == {"f", "F"}

FieldValues ==
    { <<"a">>, <<"b">>, <<>>, <<" ", "a">>,
      <<"a", "|", "b">>, <<"a", "}">> }

InitField ==
    /\ phase = "input"
    /\ wikitext \in Wikitexts
    /\ field_name \in FieldNames
    /\ field_value \in FieldValues
    /\ out1 = None
    /\ out2 = None
    /\ chain_data = <<>>
    /\ sources = <<>>
    /\ all_tokens = <<>>
    /\ submissions = <<>>
    /\ ens_mapping = <<>>
    /\ result = <<>>
    /\ StoreIdle

\* (t1, c1) = update_submission_field(wikitext, field_name, field_value)
SetField ==
    /\ phase = "input"
    /\ phase' = "set"
    /\ out1' = Some(update_submission_field(wikitext, field_name, field_value))
    /\ UNCHANGED <<chain_data, sources, all_tokens, submissions, ens_mapping,
                   result, wikitext, field_name, field_value, out2>>
    /\ UNCHANGED storeVars

\* (t2, c2) = update_submission_field(t1, field_name, field_value)
SetFieldAgain ==
    /\ phase = "set"
    /\ ~out1[1].raised
    /\ phase' = "set_again"
    /\ out2' = Some(update_submission_field(out1[1].text, field_name, field_value))
    /\ UNCHANGED <<chain_data, sources, all_tokens, submissions, ens_mapping,
                   result, wikitext, field_name, field_value, out1>>
    /\ UNCHANGED storeVars

NextField == SetField \/ SetFieldAgain

SpecField == InitField /\ [][NextField]_vars

\* the first submission template of a text, located without the mutator's
\* operators: the first "T" and the first "}}" after it
FirstTemplateAt(text) == Min({i \in 1..Len(text) : text[i] = "T"})

EndMarkerAt(text) ==
    Min({e \in (FirstTemplateAt(text) + 1)..(Len(text) - 1) :
            text[e] = "}" /\ text[e + 1] = "}"})

HasTemplate(text) ==
    /\ \E i \in 1..Len(text) : text[i] = "T"
    /\ \E e \in (FirstTemplateAt(text) + 1)..(Len(text) - 1) :
          text[e] = "}" /\ text[e + 1] = "}"

\* the last n symbols of s
Suffix(s, n) == Slice(s, Len(s) - n + 1, Len(s))

\* C7 as stated: a second call with the same field and value reports no
\* change and returns the first call's text, for any value.
C7_IdempotentAnyValue ==
    phase = "set_again" =>
        /\ ~out2[1].raised
        /\ ~out2[1].changed
        /\ out2[1].text = out1[1].text

\* a value with no "|" and no "}" in it
PlainValue(value) == \A i \in 1..Len(value) : value[i] \notin {"|", "}"}

\* C7 amended: for a value that contains neither "|" nor "}", a second call
\* with the same field and value reports no change and returns the first
\* call's text.
C7_Idempotent ==
    (phase = "set_again" /\ PlainValue(field_value)) =>
        /\ ~out2[1].raised
        /\ ~out2[1].changed
        /\ out2[1].text = out1[1].text

\* the first call wrote the field, the second call found nothing to do
C7_Witness ==
    /\ phase = "set_again"
    /\ PlainValue(field_value)
    /\ out1[1].changed
    /\ out1[1].text # wikitext
    /\ ~out2[1].changed

\* C8: the text before the first submission template and the text after its
\* end marker are the same in the input and in the returned text.
C8_OutsideUntouched ==
    (phase \in {"set", "set_again"} /\ ~out1[1].raised) =>
        LET i == FirstTemplateAt(wikitext)
            e == EndMarkerAt(wikitext)
            tail == Len(wikitext) - (e + 1)
            new == out1[1].text
        IN  /\ HasTemplate(wikitext)
            /\ Len(new) >= (i - 1) + tail
            /\ Slice(new, 1, i - 1) = Slice(wikitext, 1, i - 1)
            /\ Suffix(new, tail) = Suffix(wikitext, tail)

\* a field was written into a template that has text and another template
\* on both sides
C8_Witness ==
    /\ phase = "set"
    /\ ~out1[1].raised
    /\ out1[1].changed
    /\ FirstTemplateAt(wikitext) > 1
    /\ EndMarkerAt(wikitext) + 1 < Len(wikitext)
    /\ \E k \in 1..Len(wikitext) : k > EndMarkerAt(wikitext) /\ wikitext[k] = "P"

\* the body of the first template and the mutator's view of the field line
BodyOf(text) ==
    Slice(text, SkipSpace(text, FirstTemplateAt(text) + 1), EndMarkerAt(text) - 1)

\* the value of a matched field line: what follows "=", trimmed
LineValue(body, m) ==
    LET eq == Min({q \in m.from..m.to : body[q] = "="})
    IN  Strip(Slice(body, eq + 1, m.to))

\* C9 as stated: when the first template has a line assigning the field
\* (name compared case-insensitively) whose trimmed value equals the
\* requested value, the call returns the input text and changed = FALSE.
C9_NoOpWhenValueSame ==
    (phase = "set" /\ HasTemplate(wikitext)) =>
        LET body == BodyOf(wikitext)
            m == FieldMatch(body, field_name)
        IN  (m.found /\ LineValue(body, m) = field_value)
            => /\ ~out1[1].raised
               /\ ~out1[1].changed
               /\ out1[1].text = wikitext

\* C10 as stated: replacing a field with a different value changes only the
\* text "|name=value" of that line; the line break after it and every other
\* line are as in the input.
C10_ReplaceOnlyThatLine ==
    (phase = "set" /\ HasTemplate(wikitext)) =>
        LET from == SkipSpace(wikitext, FirstTemplateAt(wikitext) + 1)
            body == BodyOf(wikitext)
            m == FieldMatch(body, field_name)
            old == Slice(body, m.from, m.to)
            kept == Slice(old, Len(RStrip(old)) + 1, Len(old))
        IN  (m.found /\ LineValue(body, m) # Strip(field_value))
            => out1[1].text =
                  Slice(wikitext, 1, from + m.from - 2)
                    \o FieldLine(field_name, field_value) \o kept
                    \o Slice(wikitext, from + m.to, Len(wikitext))

----------------------------------------------------------------------------
(***************************************************************************)
(* Content identifiers and addresses                                       *)
(*                                                                         *)
(* A 32-byte digest is one of the names "d1", "d2"; "zero" is 64 zero hex  *)
(* digits and "bad" is text that is not hexadecimal.  "Qm1" and "bafy1"    *)
(* are the CIDv0 and the CIDv1 text of digest d1, "Qm2" and "bafy2" those  *)
(* of digest d2.                                                           *)
(***************************************************************************)

\* models.py: video_hash_to_cidv0; a hash is [prefixed, hex], the text
\* '0x' + hex or hex alone.  "Qm0" is the CIDv0 of 32 zero bytes.
VideoHashNoSentinel(video_hash) ==
    IF IsNone(video_hash) THEN None
    ELSE LET hex_str == video_hash[1].hex
         IN  IF hex_str = "zero" THEN Some("Qm0")
             ELSE IF hex_str = "d1" THEN Some("Qm1")
             ELSE IF hex_str = "d2" THEN Some("Qm2")
             ELSE None

video_hash_to_cidv0(video_hash) ==
    IF IsNone(video_hash) THEN None
    ELSE LET hex_str == video_hash[1].hex
         IN  IF hex_str = "" \/ hex_str = "zero" THEN None
             ELSE IF hex_str = "d1" THEN Some("Qm1")
             ELSE IF hex_str = "d2" THEN Some("Qm2")
             ELSE None

\* models.py: Token.ipfs_cid; a uri is [scheme, rest]
ipfs_cid(token) ==
    IF is_v2(token)
    THEN video_hash_to_cidv0(token.video_hash)
    ELSE IF ~IsNone(token.uri) /\ token.uri[1].scheme = "ipfs"
         THEN Some(token.uri[1].rest)
         ELSE None

\* the cid library: make_cid(text).  "z1" is the CIDv1 of digest d1 in
\* base58btc; any other text is no content identifier and make_cid raises
make_cid(text) ==
    CASE text = "Qm1" -> [ok |-> TRUE, version |-> 0, digest |-> "d1"]
      [] text = "Qm2" -> [ok |-> TRUE, version |-> 0, digest |-> "d2"]
      [] text = "bafy1" -> [ok |-> TRUE, version |-> 1, digest |-> "d1"]
      [] text = "bafy2" -> [ok |-> TRUE, version |-> 1, digest |-> "d2"]
      [] text = "z1" -> [ok |-> TRUE, version |-> 1, digest |-> "d1"]
      [] OTHER -> [ok |-> FALSE, version |-> 0, digest |-> ""]

\* if parsed.version == 0: parsed = parsed.to_v1()
ConvertToV1(parsed) ==
    IF parsed.version = 0 THEN [parsed EXCEPT !.version = 1] ELSE parsed

\* parsed.encode("base32").decode("ascii") of a CIDv1
EncodeSwapped(parsed) == IF parsed.digest = "d1" THEN "bafy2" ELSE "bafy1"

EncodeBase32(parsed) == IF parsed.digest = "d1" THEN "bafy1" ELSE "bafy2"

\* except Exception: return cid
NormalizeFailureRaises(cid) == [raised |-> TRUE, value |-> ""]

NormalizeFailure(cid) == [raised |-> FALSE, value |-> cid]

\* thumbnail.py: normalize_cid, as [raised, value]
NormalizeCall(cid) ==
    LET parsed == make_cid(cid)
    IN  IF ~parsed.ok THEN NormalizeFailure(cid)
        ELSE [raised |-> FALSE, value |-> EncodeBase32(ConvertToV1(parsed))]

\* thumbnail.py: normalize_cid
normalize_cid(cid) == NormalizeCall(cid).value

\* str.lower()
Lower(str) ==
    CASE str = "0xAA" -> "0xaa"
      [] str = "0xBB" -> "0xbb"
      [] str = "A.ETH" -> "a.eth"
      [] str = "0x000000000000000000000000000000000000dEaD"
            -> "0x000000000000000000000000000000000000dead"
      [] str = "0X000000000000000000000000000000000000DEAD"
            -> "0x000000000000000000000000000000000000dead"
      [] OTHER -> str

\* str.endswith('.eth')
EndsWithEth(str) == str \in {"a.eth", "b.eth", "A.ETH"}

\* Python truthiness of an Optional[str]
Truthy(o) == ~IsNone(o) /\ o[1] # ""

\* sorted(list of int)
RECURSIVE Insert(_, _)
Insert(x, sorted) ==
    IF sorted = <<>> THEN <<x>>
    ELSE IF x <= Head(sorted) THEN <<x>> \o sorted
    ELSE <<Head(sorted)>> \o Insert(x, Tail(sorted))

RECURSIVE Sorted(_)
Sorted(list) ==
    IF list = <<>> THEN <<>> ELSE Insert(Head(list), Sorted(Tail(list)))

----------------------------------------------------------------------------
(* submission.py: the two matching strategies *)

\* a match that also goes to the list of every submission matched before
AppendMatchToAll(res, sub_id, token_id_str) ==
    LET added == [i \in 1..Len(res) |->
                     [k |-> res[i].k, v |-> Append(res[i].v, IntOf(token_id_str))]]
    IN  IF DictHas(res, sub_id) THEN added
        ELSE DictSet(added, sub_id, <<IntOf(token_id_str)>>)

\* submission_tokens[sub.id].append(int(token_id_str)), creating the list
AppendMatch(res, sub_id, token_id_str) ==
    IF DictHas(res, sub_id)
    THEN DictSet(res, sub_id, Append(DictVal(res, sub_id), IntOf(token_id_str)))
    ELSE DictSet(res, sub_id, <<IntOf(token_id_str)>>)

\* cid_to_submission, lines 319-322
RECURSIVE CidToSubmission(_, _)
CidToSubmission(acc, subs) ==
    IF subs = <<>> THEN acc
    ELSE CidToSubmission(
            IF Truthy(Head(subs).ipfs_cid)
            THEN DictSet(acc, Head(subs).ipfs_cid[1], Head(subs))
            ELSE acc,
            Tail(subs))

\* the token loop, lines 327-337; toks are the dict's entries in order
RECURSIVE MatchCidLoop(_, _, _)
MatchCidLoop(res, lookup, toks) ==
    IF toks = <<>> THEN res
    ELSE LET token == Head(toks).v
             token_cid == ipfs_cid(token)
         IN  MatchCidLoop(
                IF Truthy(token_cid) /\ DictHas(lookup, token_cid[1])
                THEN AppendMatch(res, DictVal(lookup, token_cid[1]).id, Head(toks).k)
                ELSE res,
                lookup, Tail(toks))

\* submission.py: match_tokens_to_submissions (Strategy A)
match_tokens_to_submissions(tokens, subs) ==
    MatchCidLoop(<<>>, CidToSubmission(<<>>, subs), tokens)

\* the participant loop of one submission, lines 440-457
RECURSIVE AddParticipants(_, _, _, _)
AddParticipants(acc, sub, wallets, ens) ==
    IF wallets = <<>> THEN acc
    ELSE LET wallet_lower == Lower(Head(wallets))
             next ==
                IF EndsWithEth(wallet_lower)
                THEN IF DictHas(ens, wallet_lower) /\ DictVal(ens, wallet_lower) # ""
                     THEN DictSet(acc,
                                  [bh |-> sub.block_height[1],
                                   addr |-> Lower(DictVal(ens, wallet_lower))],
                                  sub)
                     ELSE acc
                ELSE DictSet(acc,
                             [bh |-> sub.block_height[1], addr |-> wallet_lower],
                             sub)
         IN  AddParticipants(next, sub, Tail(wallets), ens)

\* blockheight_address_map where a key keeps the first submission that
\* produced it
RECURSIVE BlockheightAddressMapFirstWins(_, _, _)
BlockheightAddressMapFirstWins(acc, subs, ens) ==
    IF subs = <<>> THEN acc
    ELSE LET later == BlockheightAddressMapFirstWins(acc, Tail(subs), ens)
         IN  IF IsNone(Head(subs).block_height) THEN later
             ELSE AddParticipants(later, Head(subs), Head(subs).participants, ens)

\* blockheight_address_map, lines 436-457
RECURSIVE BlockheightAddressMap(_, _, _)
BlockheightAddressMap(acc, subs, ens) ==
    IF subs = <<>> THEN acc
    ELSE BlockheightAddressMap(
            IF IsNone(Head(subs).block_height) THEN acc
            ELSE AddParticipants(acc, Head(subs), Head(subs).participants, ens),
            Tail(subs), ens)

\* key = (token.blockheight, token.owner.lower())
TokenKeyRaw(token) == [bh |-> token.blockheight[1], addr |-> token.owner]

TokenKey(token) == [bh |-> token.blockheight[1], addr |-> Lower(token.owner)]

\* the token loop, lines 460-471
RECURSIVE MatchKeyLoop(_, _, _)
MatchKeyLoop(res, lookup, toks) ==
    IF toks = <<>> THEN res
    ELSE LET token == Head(toks).v
         IN  MatchKeyLoop(
                IF ~IsNone(token.blockheight) /\ DictHas(lookup, TokenKey(token))
                THEN AppendMatch(res, DictVal(lookup, TokenKey(token)).id, Head(toks).k)
                ELSE res,
                lookup, Tail(toks))

\* result[sub_id] = sorted(result[sub_id]), lines 476-477
SortListsSkipped(res) == res

SortLists(res) ==
    [i \in 1..Len(res) |-> [k |-> res[i].k, v |-> Sorted(res[i].v)]]

\* submission.py: match_tokens_by_blockheight_and_participant (Strategy B);
\* ens is the mapping, <<>> when the caller passes none
match_tokens_by_blockheight_and_participant(tokens, subs, ens) ==
    SortLists(MatchKeyLoop(<<>>, BlockheightAddressMap(<<>>, subs, ens), tokens))

\* importer.py: BlueRailroadImporter.run, lines 264-271
MatchBlockheightFirst(tokens, subs) ==
    LET by_key == match_tokens_by_blockheight_and_participant(tokens, subs, <<>>)
    IN  IF by_key # <<>> THEN by_key
        ELSE match_tokens_to_submissions(tokens, subs)

MatchForRun(tokens, subs) ==
    LET token_to_submission == match_tokens_to_submissions(tokens, subs)
    IN  IF token_to_submission = <<>>
        THEN match_tokens_by_blockheight_and_participant(tokens, subs, <<>>)
        ELSE token_to_submission

----------------------------------------------------------------------------
(* Specification of the matching engine: a token mapping, a submission     *)
(* list and a name table, then one of the three calls.                     *)

Hash(hex) == Some([prefixed |-> TRUE, hex |-> hex])

Tokens ==
    { [owner |-> "0xAA", date |-> None, uri |-> None,
       blockheight |-> Some(100), video_hash |-> Hash("d1")],
      [owner |-> "0xbb", date |-> None, uri |-> None,
       blockheight |-> Some(100), video_hash |-> Hash("d1")],
      [owner |-> "0xAA", date |-> None, uri |-> None,
       blockheight |-> Some(200), video_hash |-> Hash("zero")],
      [owner |-> "0xAA", date |-> Some(20240101),
       uri |-> Some([scheme |-> "ipfs", rest |-> "bafy1"]),
       blockheight |-> None, video_hash |-> None] }

\* a token mapping as aggregate_tokens_from_sources builds it: the key is
\* the token's own id
TokenDicts ==
    {[i \in 1..Len(d) |->
        [k |-> d[i].k,
         v |-> [token_id |-> d[i].k,
                source_key |-> IF IsNone(d[i].v.blockheight)
                               THEN "blueRailroads" ELSE "blueRailroadV2s",
                owner |-> d[i].v.owner, owner_display |-> d[i].v.owner,
                song_id |-> None, date |-> d[i].v.date, uri |-> d[i].v.uri,
                blockheight |-> d[i].v.blockheight,
                video_hash |-> d[i].v.video_hash]]] :
     d \in DictsUpTo(TokenIds, Tokens, MaxTokens)}

SubmissionKinds ==
    { [block_height |-> Some(100), ipfs_cid |-> None, participants |-> <<"0xaa">>],
      [block_height |-> Some(100), ipfs_cid |-> Some("Qm1"),
       participants |-> <<"a.eth">>],
      [block_height |-> None, ipfs_cid |-> Some("bafy1"),
       participants |-> <<"0xBB">>],
      [block_height |-> Some(100), ipfs_cid |-> None,
       participants |-> <<"A.ETH", "0xBB">>],
      [block_height |-> Some(200), ipfs_cid |-> Some("Qm1"),
       participants |-> <<"b.eth">>] }

\* fetch_all_submissions: the pages found, by ascending id
SubmissionLists ==
    {[i \in 1..Len(l) |->
        [id |-> l[i].k, block_height |-> l[i].v.block_height,
         ipfs_cid |-> l[i].v.ipfs_cid, participants |-> l[i].v.participants]] :
     l \in {d \in DictsUpTo(1..MaxSubs, SubmissionKinds, MaxSubs) :
               \A i, j \in 1..Len(d) : i < j => d[i].k < d[j].k}}

\* ensToAddress of the snapshot: keys are lowercase names
EnsMappings == { <<>>, <<[k |-> "a.eth", v |-> "0xAA"]>> }

InitMatch ==
    /\ phase = "input"
    /\ all_tokens \in TokenDicts
    /\ submissions \in SubmissionLists
    /\ ens_mapping \in EnsMappings
    /\ result = <<>>
    /\ chain_data = <<>>
    /\ sources = <<>>
    /\ wikitext = <<>>
    /\ field_name = ""
    /\ field_value = <<>>
    /\ out1 = None
    /\ out2 = None
    /\ StoreIdle

\* the participants of a submission, each replaced by the address it stands
\* for
ResolvedInPlace(sub, ens) ==
    [sub EXCEPT !.participants =
        [i \in 1..Len(sub.participants) |->
            LET wallet_lower == Lower(sub.participants[i])
            IN  IF EndsWithEth(wallet_lower) /\ DictHas(ens, wallet_lower)
                THEN Lower(DictVal(ens, wallet_lower))
                ELSE wallet_lower]]

\* what a matching call leaves in the objects it was given.  The loops of
\* lines 319-337 and 436-477 read sub.ipfs_cid, sub.block_height,
\* sub.participants, sub.id, token.ipfs_cid, token.blockheight, token.owner
\* and ens_mapping.get(); every assignment goes to cid_to_submission,
\* blockheight_address_map or the result, and "ens_mapping = ens_mapping or
\* {}" binds the local name only.
ArgumentsAfterResolving(tokens, subs, ens) ==
    [tokens |-> tokens,
     submissions |-> [i \in 1..Len(subs) |-> ResolvedInPlace(subs[i], ens)],
     ens_mapping |-> ens]

ArgumentsAfter(tokens, subs, ens) ==
    [tokens |-> tokens, submissions |-> subs, ens_mapping |-> ens]

MatchByCid ==
    /\ phase = "input"
    /\ phase' = "matched_cid"
    /\ result' = match_tokens_to_submissions(all_tokens, submissions)
    /\ LET after == ArgumentsAfter(all_tokens, submissions, ens_mapping)
       IN  /\ all_tokens' = after.tokens
           /\ submissions' = after.submissions
           /\ ens_mapping' = after.ens_mapping
    /\ UNCHANGED <<chain_data, sources, wikitext, field_name, field_value,
                   out1, out2>>
    /\ UNCHANGED storeVars

MatchByBlockheight ==
    /\ phase = "input"
    /\ phase' = "matched_bh"
    /\ result' = match_tokens_by_blockheight_and_participant(
                    all_tokens, submissions, ens_mapping)
    /\ LET after == ArgumentsAfter(all_tokens, submissions, ens_mapping)
       IN  /\ all_tokens' = after.tokens
           /\ submissions' = after.submissions
           /\ ens_mapping' = after.ens_mapping
    /\ UNCHANGED <<chain_data, sources, wikitext, field_name, field_value,
                   out1, out2>>
    /\ UNCHANGED storeVars

\* the matching step of BlueRailroadImporter.run
RunMatch ==
    /\ phase = "input"
    /\ phase' = "matched_run"
    /\ result' = MatchForRun(all_tokens, submissions)
    /\ LET after == ArgumentsAfter(all_tokens, submissions, ens_mapping)
       IN  /\ all_tokens' = after.tokens
           /\ submissions' = after.submissions
           /\ ens_mapping' = after.ens_mapping
    /\ UNCHANGED <<chain_data, sources, wikitext, field_name, field_value,
                   out1, out2>>
    /\ UNCHANGED storeVars

NextMatch == MatchByCid \/ MatchByBlockheight \/ RunMatch

SpecMatch == InitMatch /\ [][NextMatch]_vars

\* the list a result holds for a submission id, empty when it has none
ListOf(res, sub_id) == IF DictHas(res, sub_id) THEN DictVal(res, sub_id) ELSE <<>>

\* token number tid is in the list of submission sub_id
Assigned(res, sub_id, tid) == tid \in Range(ListOf(res, sub_id))

\* token and submission carry the same content identifier text
SameCid(token, sub) ==
    /\ Truthy(ipfs_cid(token))
    /\ Truthy(sub.ipfs_cid)
    /\ ipfs_cid(token)[1] = sub.ipfs_cid[1]

\* C3: in the run's matching step, a non-empty content-identity match is the
\* final mapping and every pair of it is a content match; block-height
\* matching is the final mapping only when the content match is empty.
C3_CidMatchIsFinal ==
    phase = "matched_run" =>
        LET by_cid == match_tokens_to_submissions(all_tokens, submissions)
            by_key == match_tokens_by_blockheight_and_participant(
                          all_tokens, submissions, <<>>)
        IN  /\ by_cid # <<>> =>
                 /\ result = by_cid
                 /\ \A i \in 1..Len(submissions), j \in 1..Len(all_tokens) :
                       Assigned(result, submissions[i].id, IntOf(all_tokens[j].k))
                       => SameCid(all_tokens[j].v, submissions[i])
            /\ result # by_cid => (by_cid = <<>> /\ result = by_key)

\* both strategies match something and disagree; the run kept the content
\* match
C3_Witness ==
    /\ phase = "matched_run"
    /\ match_tokens_to_submissions(all_tokens, submissions) # <<>>
    /\ \E i \in 1..Len(submissions), j \in 1..Len(all_tokens) :
          /\ Assigned(match_tokens_by_blockheight_and_participant(
                          all_tokens, submissions, <<>>),
                      submissions[i].id, IntOf(all_tokens[j].k))
          /\ ~Assigned(result, submissions[i].id, IntOf(all_tokens[j].k))

\* C4 as stated: a token and a submission whose content identifiers are two
\* encodings of the same content are matched by Strategy A.
C4_MatchesAcrossEncodings ==
    phase = "matched_cid" =>
        \A i \in 1..Len(submissions), j \in 1..Len(all_tokens) :
            (/\ Truthy(ipfs_cid(all_tokens[j].v))
             /\ Truthy(submissions[i].ipfs_cid)
             /\ normalize_cid(ipfs_cid(all_tokens[j].v)[1])
                    = normalize_cid(submissions[i].ipfs_cid[1]))
            => \E k \in 1..Len(submissions) :
                  /\ Truthy(submissions[k].ipfs_cid)
                  /\ normalize_cid(submissions[k].ipfs_cid[1])
                        = normalize_cid(ipfs_cid(all_tokens[j].v)[1])
                  /\ Assigned(result, submissions[k].id, IntOf(all_tokens[j].k))

StrictlyAscending(list) == \A a, b \in 1..Len(list) : a < b => list[a] < list[b]

\* C5 as stated: every list returned by Strategy A and by Strategy B is
\* strictly ascending.
C5_BothStrictlyAscending ==
    phase \in {"matched_cid", "matched_bh"} =>
        \A e \in 1..Len(result) : StrictlyAscending(result[e].v)

\* the ids of the tokens assigned to sub_id, in the token mapping's order
RECURSIVE InMappingOrder(_, _, _)
InMappingOrder(res, sub_id, toks) ==
    IF toks = <<>> THEN <<>>
    ELSE (IF Assigned(res, sub_id, IntOf(Head(toks).k))
          THEN <<IntOf(Head(toks).k)>> ELSE <<>>)
         \o InMappingOrder(res, sub_id, Tail(toks))

\* C5 amended: every list returned by Strategy B is strictly ascending;
\* every list returned by Strategy A holds each id once, in the iteration
\* order of the token mapping.
C5_AscendingOrMappingOrder ==
    /\ phase = "matched_bh" =>
          \A e \in 1..Len(result) : StrictlyAscending(result[e].v)
    /\ phase = "matched_cid" =>
          \A e \in 1..Len(result) :
              result[e].v = InMappingOrder(result, result[e].k, all_tokens)

\* Strategy B returned two tokens that the mapping iterates in descending
\* order
C5_Witness ==
    /\ phase = "matched_bh"
    /\ Len(all_tokens) >= 2
    /\ IntOf(all_tokens[1].k) > IntOf(all_tokens[2].k)
    /\ \E e \in 1..Len(result) :
          /\ Assigned(result, result[e].k, IntOf(all_tokens[1].k))
          /\ Assigned(result, result[e].k, IntOf(all_tokens[2].k))

\* the address a participant string stands for: a name ending in ".eth" is
\* looked up, lowercased, in the name table; anything else is an address
ParticipantAddress(wallet) ==
    IF EndsWithEth(Lower(wallet))
    THEN IF DictHas(ens_mapping, Lower(wallet))
         THEN Some(Lower(DictVal(ens_mapping, Lower(wallet))))
         ELSE None
    ELSE Some(Lower(wallet))

\* the submission has the token's block height and a participant that
\* stands for the token's owner
Fits(sub, token) ==
    /\ ~IsNone(token.blockheight)
    /\ sub.block_height = token.blockheight
    /\ \E p \in 1..Len(sub.participants) :
          ParticipantAddress(sub.participants[p]) = Some(Lower(token.owner))

\* C6 as stated: Strategy B assigns a token to a submission if and only if
\* the block heights are equal and the owner is one of its participants.
C6_AssignedIffFits ==
    phase = "matched_bh" =>
        \A i \in 1..Len(submissions), j \in 1..Len(all_tokens) :
            Assigned(result, submissions[i].id, IntOf(all_tokens[j].k))
            <=> Fits(submissions[i], all_tokens[j].v)

\* C6 amended: Strategy B assigns a token to a submission if and only if
\* the block heights are equal, the owner is one of its participants, and
\* no later submission of the list has that block height and that owner
\* among its participants.
C6_AssignedIffLastFit ==
    phase = "matched_bh" =>
        \A i \in 1..Len(submissions), j \in 1..Len(all_tokens) :
            Assigned(result, submissions[i].id, IntOf(all_tokens[j].k))
            <=> /\ Fits(submissions[i], all_tokens[j].v)
                /\ \A k \in (i + 1)..Len(submissions) :
                      ~Fits(submissions[k], all_tokens[j].v)

\* a token fits two submissions, the later one through a resolved name, and
\* is assigned to the later one
C6_Witness ==
    /\ phase = "matched_bh"
    /\ \E i, k \in 1..Len(submissions), j \in 1..Len(all_tokens) :
          /\ i < k
          /\ Fits(submissions[i], all_tokens[j].v)
          /\ Fits(submissions[k], all_tokens[j].v)
          /\ \E p \in 1..Len(submissions[k].participants) :
                EndsWithEth(Lower(submissions[k].participants[p]))
          /\ Assigned(result, submissions[k].id, IntOf(all_tokens[j].k))
          /\ ~Assigned(result, submissions[i].id, IntOf(all_tokens[j].k))

----------------------------------------------------------------------------
(***************************************************************************)
(* wiki_client.py: the wiki as MWClientWrapper presents it                 *)
(*                                                                         *)
(* A world is [pages, calls]: the page texts by title and the save_page    *)
(* calls made.  A function that talks to the wiki returns [w, result]: the *)
(* world it leaves and its SaveResult.  An exception that leaves the       *)
(* function is the result with raised = TRUE.                              *)
(***************************************************************************)

\* wiki_client.py: SaveResult
SaveResult(page_title, action, message) ==
    [raised |-> FALSE, page_title |-> page_title, action |-> action,
     message |-> message]

\* an exception propagating out of the call
Raised(page_title, message) ==
    [raised |-> TRUE, page_title |-> page_title, action |-> "",
     message |-> message]

\* MWClientWrapper.get_page_content
get_page_content(ps, title) ==
    IF DictHas(ps, title) THEN Some(DictVal(ps, title)) ELSE None

\* if current_content == content: return SaveResult(title, 'unchanged', ...)
SavePageNoCompare(w, title, content, failing) ==
    LET existed == DictHas(w.pages, title)
        called == Append(w.calls, [title |-> title, content |-> content])
    IN  IF title \in failing
        THEN [w |-> [pages |-> w.pages, calls |-> called],
              result |-> SaveResult(title, "error", "save failed")]
        ELSE [w |-> [pages |-> DictSet(w.pages, title, content), calls |-> called],
              result |-> SaveResult(title, IF existed THEN "updated" ELSE "created", "")]

\* MWClientWrapper.save_page; failing holds the titles whose page.save
\* raises, which save_page turns into an 'error' result
save_page(w, title, content, failing) ==
    LET existed == DictHas(w.pages, title)
        current_content == get_page_content(w.pages, title)
        called == Append(w.calls, [title |-> title, content |-> content])
    IN  IF current_content = Some(content)
        THEN [w |-> [pages |-> w.pages, calls |-> called],
              result |-> SaveResult(title, "unchanged", "Content identical")]
        ELSE IF title \in failing
        THEN [w |-> [pages |-> w.pages, calls |-> called],
              result |-> SaveResult(title, "error", "save failed")]
        ELSE [w |-> [pages |-> DictSet(w.pages, title, content), calls |-> called],
              result |-> SaveResult(title, IF existed THEN "updated" ELSE "created", "")]

----------------------------------------------------------------------------
(* submission.py: the submission page writers *)

\* submission.py: get_submission_page_title
get_submission_page_title(submission_id) ==
    "Blue Railroad Submission/" \o IdStr[submission_id]

\* sorted(set(token_ids))
SortedSet(list) ==
    LET S == Range(list)
    IN  Sorted(CHOOSE q \in [1..Cardinality(S) -> S] : Range(q) = S)

\* ','.join(str(tid) for tid in sorted_ids)
RECURSIVE JoinIds(_)
JoinIds(ids) ==
    IF ids = <<>> THEN ""
    ELSE IF Len(ids) = 1 THEN IdStr[ids[1]]
    ELSE IdStr[ids[1]] \o "," \o JoinIds(Tail(ids))

\* a str as wikitext: the empty string is no symbol at all
Text(str) == IF str = "" THEN <<>> ELSE <<str>>

\* except ValueError as e: return SaveResult(page_title, 'error', str(e))
ValueErrorPropagates(page_title) == Raised(page_title, "ValueError")

ValueErrorResult(page_title) ==
    SaveResult(page_title, "error", "Could not find template")

\* the shared shape of update_submission_cid and update_submission_token_id:
\* read the page, set one field, save when the text changed
UpdateOneField(w, submission_id, name, value, same_message, failing) ==
    LET page_title == get_submission_page_title(submission_id)
        current_content == get_page_content(w.pages, page_title)
    IN  IF IsNone(current_content)
        THEN [w |-> w, result |-> SaveResult(page_title, "error", "Page not found")]
        ELSE LET upd == update_submission_field(current_content[1], name, value)
             IN  IF upd.raised
                 THEN [w |-> w, result |-> ValueErrorResult(page_title)]
                 ELSE IF ~upd.changed
                 THEN [w |-> w,
                       result |-> SaveResult(page_title, "unchanged", same_message)]
                 ELSE save_page(w, page_title, upd.text, failing)

\* submission.py: update_submission_cid
update_submission_cid(w, submission_id, cid, failing) ==
    UpdateOneField(w, submission_id, "ipfs_cid", Text(cid),
                   "IPFS CID already set to this value", failing)

\* submission.py: update_submission_token_id
update_submission_token_id(w, submission_id, failing) ==
    UpdateOneField(w, submission_id, "status", <<"Minted">>,
                   "Status already set to Minted", failing)

\* submission.py: update_submission_token_ids
update_submission_token_ids(w, submission_id, token_ids, failing) ==
    LET page_title == get_submission_page_title(submission_id)
        current_content == get_page_content(w.pages, page_title)
        token_ids_str == JoinIds(SortedSet(token_ids))
    IN  IF IsNone(current_content)
        THEN [w |-> w, result |-> SaveResult(page_title, "error", "Page not found")]
        ELSE LET upd1 == update_submission_field(current_content[1], "token_ids",
                                                 Text(token_ids_str))
                 upd2 == IF token_ids # <<>>
                         THEN update_submission_field(upd1.text, "status", <<"Minted">>)
                         ELSE [raised |-> FALSE, text |-> upd1.text, changed |-> FALSE]
             IN  IF upd1.raised \/ upd2.raised
                 THEN [w |-> w, result |-> ValueErrorResult(page_title)]
                 ELSE IF ~upd1.changed /\ ~upd2.changed
                 THEN [w |-> w,
                       result |-> SaveResult(page_title, "unchanged",
                                             "Token IDs and status already set")]
                 ELSE save_page(w, page_title, upd2.text, failing)

----------------------------------------------------------------------------
(* Specification of the submission page writers: a wiki with at most the   *)
(* page of submission 1, then one call of one writer.                      *)

\* field lines of a submission template
SubmissionLines ==
    { <<"|", "block_height", "=", "100", "\n">>,
      <<"|", "ipfs_cid", "=", "Qm1", "\n">>,
      <<"|", "ipfs_cid", "=", "\n">>,
      <<"|", "status", "=", "Pending", "\n">>,
      <<"|", "status", "=", "Minted", "\n">>,
      <<"|", "token_ids", "=", "1,2", "\n">>,
      <<"|", "token_ids", "=", " ", "1,2", "\n">> }

\* a participant template
Participant(wallet) ==
    <<"\n", "P", "\n", "|", "wallet", "=", wallet, "\n", "}", "}">>

\* pages that hold a submission template
TemplatePages ==
    {<<"T", "\n">> \o Concat(ls) \o <<"}", "}">> \o post :
        ls \in SeqsUpTo(SubmissionLines, MaxFields),
        post \in {<<>>, Participant("0xaa")}}

\* pages without one: free text, a participant template alone, a template
\* that is never closed
NoTemplatePages ==
    { <<"a", "\n">>,
      Tail(Participant("0xaa")),
      <<"T", "\n", "|", "status", "=", "Pending", "\n">> }

\* the wiki: empty, or the page of submission 1
WriteWikis ==
    {<<>>} \cup {<<[k |-> get_submission_page_title(1), v |-> text]>> :
                    text \in TemplatePages \cup NoTemplatePages}

WriteArgs ==
    [op : {"cid"}, submission_id : 1..2, cid : {"Qm1", "bafy1"}, token_ids : {<<>>}]
    \cup [op : {"token_id"}, submission_id : 1..2, cid : {""}, token_ids : {<<>>}]
    \cup [op : {"token_ids"}, submission_id : 1..2, cid : {""},
          token_ids : {<<>>, <<1>>, <<2, 1>>, <<1, 2, 1>>}]

InitWrite ==
    /\ phase = "input"
    /\ pages \in WriteWikis
    /\ save_calls = <<>>
    /\ arg \in WriteArgs
    /\ ret = <<>>
    /\ chain_data = <<>>
    /\ sources = <<>>
    /\ all_tokens = <<>>
    /\ submissions = <<>>
    /\ ens_mapping = <<>>
    /\ result = <<>>
    /\ wikitext = <<>>
    /\ field_name = ""
    /\ field_value = <<>>
    /\ out1 = None
    /\ out2 = None

\* one call of update_submission_cid, update_submission_token_id or
\* update_submission_token_ids
WriteSubmission ==
    /\ phase = "input"
    /\ \E failing \in SUBSET {get_submission_page_title(1)} :
          LET w == [pages |-> pages, calls |-> save_calls]
              out == CASE arg.op = "cid" ->
                            update_submission_cid(w, arg.submission_id, arg.cid, failing)
                       [] arg.op = "token_id" ->
                            update_submission_token_id(w, arg.submission_id, failing)
                       [] arg.op = "token_ids" ->
                            update_submission_token_ids(w, arg.submission_id,
                                                        arg.token_ids, failing)
          IN  /\ ret' = out.result
              /\ pages' = out.w.pages
              /\ save_calls' = out.w.calls
    /\ phase' = "written"
    /\ UNCHANGED <<chain_data, sources, all_tokens, submissions, ens_mapping,
                   result, wikitext, field_name, field_value, out1, out2, arg>>

NextWrite == WriteSubmission

SpecWrite == InitWrite /\ [][NextWrite]_vars

\* the page a write addresses is missing, or its text holds no submission
\* template
NothingToWrite(ps, submission_id) ==
    LET title == get_submission_page_title(submission_id)
    IN  \/ ~DictHas(ps, title)
        \/ ~HasTemplate(DictVal(ps, title))

\* C11: a submission write on a page that does not exist or whose text
\* holds no record template returns a result with action 'error', raises
\* nothing, makes no save_page call and leaves the wiki as it was.
C11_ErrorResultNoSave ==
    [][(phase' = "written" /\ NothingToWrite(pages, arg.submission_id))
        => /\ ~ret'.raised
           /\ ret'.action = "error"
           /\ ret'.page_title = get_submission_page_title(arg.submission_id)
           /\ save_calls' = <<>>
           /\ pages' = pages]_vars

\* a write was attempted on an existing page without a template and
\* answered with an error result
C11_Witness ==
    /\ phase = "written"
    /\ arg.op = "token_ids"
    /\ arg.token_ids # <<>>
    /\ DictHas(pages, get_submission_page_title(arg.submission_id))
    /\ NothingToWrite(pages, arg.submission_id)
    /\ ret.action = "error"

----------------------------------------------------------------------------
(***************************************************************************)
(* token_page.py: the token page                                           *)
(*                                                                         *)
(* A token page is a sequence of symbols: "K" is the text                  *)
(* "{{Blue Railroad Token", a field name is one symbol, a value is one     *)
(* symbol free of markup, "c" is the category link of a current-version    *)
(* page, and "|", "=", "}", " " and "\n" are themselves.                   *)
(***************************************************************************)

\* str(int) for the numbers a token carries
StrOfInt(n) ==
    CASE n = 100 -> "100"
      [] n = 200 -> "200"
      [] n = 20240101 -> "20240101"
      [] OTHER -> IdStr[n]

\* models.py: Token.formatted_date (YYYYMMDD dates)
formatted_date(token) ==
    IF IsNone(token.date) THEN None
    ELSE IF token.date[1] = 20240101 THEN Some("2024-01-01")
    ELSE None

\* the text of an Optional[str] attribute in an f-string: x or ''
OrEmpty(o) == IF IsNone(o) THEN "" ELSE o[1]

\* token.video_hash or ''
HashText(video_hash) ==
    IF IsNone(video_hash) THEN ""
    ELSE (IF video_hash[1].prefixed THEN "0x" ELSE "") \o video_hash[1].hex

\* token.uri or ''
UriText(uri) ==
    IF IsNone(uri) THEN "" ELSE uri[1].scheme \o "://" \o uri[1].rest

\* thumbnail.py: get_thumbnail_filename
get_thumbnail_filename(cid) == "Blue_Railroad_Video_" \o normalize_cid(cid) \o ".jpg"

\* the pinned predicate over a content id; pinned is the set of pinned ids
check_maybelle_pinned(cid, pinned) == Truthy(cid) /\ cid[1] \in pinned

\* one line "|name=value" of the template, with the line break after it
TemplateLine(name, value) == <<"|", name, "=">> \o Text(value) \o <<"\n">>

\* token_page.py: generate_template_call
generate_template_call(token, maybelle_pinned, submission_id) ==
    LET cid == ipfs_cid(token)
        thumbnail == IF Truthy(cid) THEN get_thumbnail_filename(cid[1]) ELSE ""
    IN  <<"K", "\n">>
        \o TemplateLine("token_id", token.token_id)
        \o TemplateLine("song_id", OrEmpty(token.song_id))
        \o TemplateLine("contract_version", IF is_v2(token) THEN "V2" ELSE "V1")
        \o TemplateLine("thumbnail", thumbnail)
        \o TemplateLine("maybelle_pinned", IF maybelle_pinned THEN "yes" ELSE "no")
        \o (IF is_v2(token)
            THEN TemplateLine("blockheight", StrOfInt(token.blockheight[1]))
                 \o TemplateLine("video_hash", HashText(token.video_hash))
            ELSE TemplateLine("date", OrEmpty(formatted_date(token)))
                 \o TemplateLine("date_raw",
                                 IF IsNone(token.date) THEN ""
                                 ELSE StrOfInt(token.date[1])))
        \o TemplateLine("owner", token.owner)
        \o TemplateLine("owner_display", token.owner_display)
        \o TemplateLine("uri", UriText(token.uri))
        \o TemplateLine("uri_type", IF Truthy(cid) THEN "ipfs" ELSE "unknown")
        \o TemplateLine("ipfs_cid", OrEmpty(cid))
        \o TemplateLine("submission_id",
                        IF IsNone(submission_id) THEN "" ELSE IdStr[submission_id[1]])
        \o <<"}", "}">>

\* token_page.py: generate_token_page_content
generate_token_page_content(token, submission_id, pinned) ==
    generate_template_call(token, check_maybelle_pinned(ipfs_cid(token), pinned),
                           submission_id)
        \o <<"\n">>
        \o (IF is_v2(token) THEN <<"\n", "c">> ELSE <<>>)

\* the end of (?:\|[^\n]*\n)* started at j: the first position that opens
\* no further line, 0 when a line is never ended
RECURSIVE TokenLinesEnd(_, _)
TokenLinesEnd(text, j) ==
    IF j <= Len(text) /\ text[j] = "|"
    THEN LET nl == {n \in (j + 1)..Len(text) : text[n] = "\n"}
         IN  IF nl = {} THEN 0 ELSE TokenLinesEnd(text, Min(nl) + 1)
    ELSE j

\* re.search(r'\{\{Blue Railroad Token\s*\n(?:\|[^\n]*\n)*\}\}', content)
\* [found, start, end] : the match is content[start..end]
TokenTemplateMatch(text) ==
    LET EndOf(i) ==
            LET j == SkipSpace(text, i + 1)
            IN  IF j > i + 1 /\ text[j - 1] = "\n" THEN TokenLinesEnd(text, j) ELSE 0
        starts == {i \in 1..Len(text) :
                      /\ text[i] = "K"
                      /\ LET e == EndOf(i)
                         IN  /\ e # 0
                             /\ e + 1 <= Len(text)
                             /\ text[e] = "}"
                             /\ text[e + 1] = "}"}
    IN  IF starts = {} THEN [found |-> FALSE, start |-> 0, end |-> 0]
        ELSE [found |-> TRUE, start |-> Min(starts), end |-> EndOf(Min(starts)) + 1]

\* ''.join of symbols
RECURSIVE JoinText(_)
JoinText(syms) == IF syms = <<>> THEN "" ELSE Head(syms) \o JoinText(Tail(syms))

\* m = re.search(r'\|name=([^\n|]+)', old_template);
\* m.group(1).strip() if m else None
TemplateValue(tpl, name) ==
    LET starts == {p \in 1..(Len(tpl) - 3) :
                      /\ tpl[p] = "|"
                      /\ tpl[p + 1] = name
                      /\ tpl[p + 2] = "="
                      /\ tpl[p + 3] \notin {"\n", "|"}}
    IN  IF starts = {} THEN None
        ELSE LET p == Min(starts)
                 stops == {q \in (p + 3)..Len(tpl) : tpl[q] \in {"\n", "|"}}
                 to == IF stops = {} THEN Len(tpl) ELSE Min(stops) - 1
             IN  Some(JoinText(Strip(Slice(tpl, p + 3, to))))

\* the reasons list, lines 98-104
UpdateReasons(existing_owner, existing_pinned, existing_submission, owner, new_pinned_str, new_submission_str) ==
    (IF existing_owner # Some(owner) THEN <<"ownership changed">> ELSE <<>>)
    \o (IF existing_pinned # Some(new_pinned_str) THEN <<"maybelle pin">> ELSE <<>>)
    \o (IF existing_submission # Some(new_submission_str)
        THEN <<"submission link">> ELSE <<>>)

\* token_page.py: update_existing_page; None is [updated |-> FALSE]
update_existing_page(existing_content, token, submission_id, pinned) ==
    LET match == TokenTemplateMatch(existing_content)
    IN  IF ~match.found
        THEN [updated |-> TRUE,
              content |-> generate_token_page_content(token, submission_id, pinned),
              reasons |-> <<"template not found">>]
        ELSE
          LET old_template == Slice(existing_content, match.start, match.end)
              maybelle_pinned == check_maybelle_pinned(ipfs_cid(token), pinned)
              reasons == UpdateReasons(
                            TemplateValue(old_template, "owner"),
                            TemplateValue(old_template, "maybelle_pinned"),
                            TemplateValue(old_template, "submission_id"),
                            token.owner,
                            IF maybelle_pinned THEN "yes" ELSE "no",
                            IF IsNone(submission_id) THEN ""
                            ELSE IdStr[submission_id[1]])
          IN  IF reasons = <<>>
              THEN [updated |-> FALSE, content |-> existing_content,
                    reasons |-> <<>>]
              ELSE [updated |-> TRUE,
                    content |->
                        Slice(existing_content, 1, match.start - 1)
                        \o generate_template_call(token, maybelle_pinned,
                                                  submission_id)
                        \o Slice(existing_content, match.end + 1,
                                 Len(existing_content)),
                    reasons |-> reasons]

\* importer.py: the page title of import_token
TokenPageTitle(token) == "Blue Railroad Token " \o token.token_id

\* importer.py: BlueRailroadImporter.import_token with generate_thumbnails
\* off (the thumbnail pipeline saves no page)
import_token(w, token, submission_id, pinned, failing) ==
    LET page_title == TokenPageTitle(token)
        existing_content == get_page_content(w.pages, page_title)
    IN  IF IsNone(existing_content)
        THEN save_page(w, page_title,
                       generate_token_page_content(token, submission_id, pinned),
                       failing)
        ELSE LET upd == update_existing_page(existing_content[1], token,
                                             submission_id, pinned)
             IN  IF ~upd.updated
                 THEN [w |-> w,
                       result |-> SaveResult(page_title, "unchanged", "No changes")]
                 ELSE save_page(w, page_title, upd.content, failing)

----------------------------------------------------------------------------
(* Specification of the token page: a wiki with at most the page of token  *)
(* 1, then one import_token call.                                          *)

\* token 1, of each kind of record
PageTokens ==
    {[token_id |-> "1",
      source_key |-> IF IsNone(t.blockheight)
                     THEN "blueRailroads" ELSE "blueRailroadV2s",
      owner |-> t.owner, owner_display |-> t.owner, song_id |-> None,
      date |-> t.date, uri |-> t.uri,
      blockheight |-> t.blockheight, video_hash |-> t.video_hash] : t \in Tokens}

SubmissionIds == {None, Some(1), Some(2)}

PinnedSets == {{}, {"Qm1"}}

\* pages as the importer wrote them on an earlier run
GeneratedPages ==
    {generate_token_page_content(t, sid, pinned) :
        t \in PageTokens, sid \in SubmissionIds, pinned \in PinnedSets}

\* lines of a template edited by hand; the lone line break is a blank line
\* inside the template
EditedLines ==
    { <<"|", "owner", "=", "0xAA", "\n">>,
      <<"|", "owner", "=", " ", "0xbb", "\n">>,
      <<"|", "maybelle_pinned", "=", "no", "\n">>,
      <<"|", "submission_id", "=", "1", "\n">>,
      <<"|", "submission_id", "=", "\n">>,
      <<"|", "owner", "=", "0xAA", "|", "submission_id", "=", "1", "\n">>,
      <<"\n">> }

EditedPages ==
    {<<"K", "\n">> \o Concat(ls) \o <<"}", "}">> :
        ls \in SeqsUpTo(EditedLines, MaxFields)}

\* free text a reader added around the template; "x" is such text
TokenPageTexts ==
    {pre \o page \o post :
        pre \in {<<>>, <<"x", "\n">>},
        page \in GeneratedPages \cup EditedPages,
        post \in {<<>>, <<"\n", "x">>}}
    \cup {<<"x", "\n">>}

InitTokenPage ==
    /\ phase = "input"
    /\ arg \in [token : PageTokens, submission_id : SubmissionIds,
                pinned : PinnedSets]
    /\ pages \in {<<>>} \cup {<<[k |-> TokenPageTitle(arg.token), v |-> text]>> :
                                text \in TokenPageTexts}
    /\ save_calls = <<>>
    /\ ret = <<>>
    /\ chain_data = <<>>
    /\ sources = <<>>
    /\ all_tokens = <<>>
    /\ submissions = <<>>
    /\ ens_mapping = <<>>
    /\ result = <<>>
    /\ wikitext = <<>>
    /\ field_name = ""
    /\ field_value = <<>>
    /\ out1 = None
    /\ out2 = None

\* import_token(token, submission_id=submission_id); ret keeps what
\* update_existing_page answered next to the SaveResult
ImportToken ==
    /\ phase = "input"
    /\ \E failing \in SUBSET {TokenPageTitle(arg.token)} :
          LET w == [pages |-> pages, calls |-> save_calls]
              out == import_token(w, arg.token, arg.submission_id, arg.pinned,
                                  failing)
              existing == get_page_content(pages, TokenPageTitle(arg.token))
          IN  /\ ret' = [result |-> out.result,
                         update |-> IF IsNone(existing) THEN None
                                    ELSE Some(update_existing_page(
                                            existing[1], arg.token,
                                            arg.submission_id, arg.pinned))]
              /\ pages' = out.w.pages
              /\ save_calls' = out.w.calls
    /\ phase' = "imported"
    /\ UNCHANGED <<chain_data, sources, all_tokens, submissions, ens_mapping,
                   result, wikitext, field_name, field_value, out1, out2, arg>>

NextTokenPage == ImportToken

SpecTokenPage == InitTokenPage /\ [][NextTokenPage]_vars

\* the token template block of a page, read without the importer's
\* operators: from the first "K" to the first "}}" after it
TokenBlockFrom(text) == Min({i \in 1..Len(text) : text[i] = "K"})

TokenBlockTo(text) ==
    Min({e \in (TokenBlockFrom(text) + 1)..(Len(text) - 1) :
            text[e] = "}" /\ text[e + 1] = "}"}) + 1

HasTokenBlock(text) ==
    /\ \E i \in 1..Len(text) : text[i] = "K"
    /\ \E e \in (TokenBlockFrom(text) + 1)..(Len(text) - 1) :
          text[e] = "}" /\ text[e + 1] = "}"

\* the value the block records for a field: the text of its first line
\* "|name=...", trimmed; None when the block has no such line
Recorded(text, name) ==
    LET block == Slice(text, TokenBlockFrom(text), TokenBlockTo(text))
        at == {p \in 1..(Len(block) - 2) :
                  block[p] = "|" /\ block[p + 1] = name /\ block[p + 2] = "="}
    IN  IF at = {} THEN None
        ELSE LET p == Min(at)
                 to == Min({q \in (p + 3)..Len(block) : block[q] \in {"\n", "}"}})
             IN  Some(JoinText(Strip(Slice(block, p + 3, to - 1))))

\* the three recorded attributes equal the freshly computed ones
RecordedEqualsFresh(text, a) ==
    /\ HasTokenBlock(text)
    /\ Recorded(text, "owner") = Some(a.token.owner)
    /\ Recorded(text, "maybelle_pinned") =
          Some(IF check_maybelle_pinned(ipfs_cid(a.token), a.pinned)
               THEN "yes" ELSE "no")
    /\ Recorded(text, "submission_id") =
          Some(IF IsNone(a.submission_id) THEN "" ELSE IdStr[a.submission_id[1]])

\* C12: for a token whose page exists, with or without a matched
\* submission, when the owner, the pinned flag and the submission id
\* recorded in the page's template equal the freshly computed values,
\* update_existing_page reports no update and import_token makes no
\* save_page call and returns 'unchanged'.
C12_NoWriteWhenSame ==
    [][(/\ phase' = "imported"
        /\ DictHas(pages, TokenPageTitle(arg.token))
        /\ RecordedEqualsFresh(DictVal(pages, TokenPageTitle(arg.token)), arg))
        => /\ ~ret'.update[1].updated
           /\ save_calls' = <<>>
           /\ ret'.result.action = "unchanged"]_vars

\* old and new differ only inside one template block: they share the text
\* before a "K" and the text after a "}}"
OnlyBlockDiffers(old, new) ==
    \E a \in 1..Len(old) : \E e \in (a + 2)..Len(old) :
        /\ old[a] = "K" /\ old[e - 1] = "}" /\ old[e] = "}"
        /\ Len(new) >= (a - 1) + (Len(old) - e)
        /\ Slice(new, 1, a - 1) = Slice(old, 1, a - 1)
        /\ Suffix(new, Len(old) - e) = Slice(old, e + 1, Len(old))

\* C13: when update_existing_page rewrites an existing token page, only
\* the token template block changes: the text before and after the block
\* is the same in the old and the new content, for every page content.
C13_OnlyBlockChanges ==
    [][(/\ phase' = "imported"
        /\ DictHas(pages, TokenPageTitle(arg.token))
        /\ HasTokenBlock(DictVal(pages, TokenPageTitle(arg.token)))
        /\ ret'.update[1].updated)
        => OnlyBlockDiffers(DictVal(pages, TokenPageTitle(arg.token)),
                            ret'.update[1].content)]_vars

----------------------------------------------------------------------------
(* Specification of the content-hash codec: a token and a content id       *)
(* text, then the derivation of the token's content id, or normalize_cid   *)
(* once and twice, or get_thumbnail_filename.                              *)

\* thumbnail.py: get_thumbnail_filename, as [raised, value]
ThumbnailCall(cid) ==
    LET normalized == NormalizeCall(cid)
    IN  IF normalized.raised THEN [raised |-> TRUE, value |-> ""]
        ELSE [raised |-> FALSE,
              value |-> "Blue_Railroad_Video_" \o normalized.value \o ".jpg"]

\* video hashes: absent, and each hex text with and without '0x'
VideoHashes ==
    {None} \cup {Some([prefixed |-> p, hex |-> h]) :
                    p \in BOOLEAN, h \in {"", "zero", "d1", "d2", "bad"}}

CodecTokens ==
    [token_id : {"1"}, source_key : {"blueRailroadV2s"}, owner : {"0xAA"},
     date : {None},
     uri : {None, Some([scheme |-> "ipfs", rest |-> "bafy1"]),
            Some([scheme |-> "https", rest |-> "x"])},
     blockheight : {None, Some(100)},
     video_hash : VideoHashes]

\* content id texts: the two encodings of two digests, a CIDv1 in another
\* base, and text that is no content identifier
CidTexts == {"Qm1", "Qm2", "bafy1", "bafy2", "z1", "", "junk", " Qm1", "QM1", "bafy1x"}

InitCodec ==
    /\ phase = "input"
    /\ arg \in [token : CodecTokens, cid : CidTexts]
    /\ ret = <<>>
    /\ pages = <<>>
    /\ save_calls = <<>>
    /\ chain_data = <<>>
    /\ sources = <<>>
    /\ all_tokens = <<>>
    /\ submissions = <<>>
    /\ ens_mapping = <<>>
    /\ result = <<>>
    /\ wikitext = <<>>
    /\ field_name = ""
    /\ field_value = <<>>
    /\ out1 = None
    /\ out2 = None

codecFrame ==
    <<chain_data, sources, all_tokens, submissions, ens_mapping, result,
      wikitext, field_name, field_value, out1, out2, pages, save_calls, arg>>

\* video_hash_to_cidv0(token.video_hash) and token.ipfs_cid
DeriveCid ==
    /\ phase = "input"
    /\ phase' = "derived"
    /\ ret' = [cid |-> video_hash_to_cidv0(arg.token.video_hash),
               token_cid |-> ipfs_cid(arg.token)]
    /\ UNCHANGED codecFrame

\* normalize_cid(cid)
Normalize ==
    /\ phase = "input"
    /\ phase' = "normalized"
    /\ ret' = [once |-> NormalizeCall(arg.cid)]
    /\ UNCHANGED codecFrame

\* normalize_cid(normalize_cid(cid))
NormalizeAgain ==
    /\ phase = "normalized"
    /\ ~ret.once.raised
    /\ phase' = "normalized_again"
    /\ ret' = [once |-> ret.once, twice |-> NormalizeCall(ret.once.value)]
    /\ UNCHANGED codecFrame

\* get_thumbnail_filename(cid)
ThumbnailFilename ==
    /\ phase = "input"
    /\ phase' = "named"
    /\ ret' = [filename |-> ThumbnailCall(arg.cid)]
    /\ UNCHANGED codecFrame

NextCodec == DeriveCid \/ Normalize \/ NormalizeAgain \/ ThumbnailFilename

SpecCodec == InitCodec /\ [][NextCodec]_vars

\* the hash is absent, empty, or 32 zero bytes in either form
NoContentHash(video_hash) ==
    \/ IsNone(video_hash)
    \/ video_hash[1].hex = ""
    \/ video_hash[1].hex = "zero"

\* C14: video_hash_to_cidv0 returns no content identifier for a hash of 32
\* zero bytes, with or without the 0x prefix, and for an absent or empty
\* hash; Token.ipfs_cid of a current-version token with such a hash is
\* absent.
C14_ZeroHashHasNoCid ==
    (phase = "derived" /\ NoContentHash(arg.token.video_hash))
        => /\ ret.cid = None
           /\ is_v2(arg.token) => ret.token_cid = None

\* a current-version token with the bare zero hash and an ipfs uri has no
\* content id
C14_Witness ==
    /\ phase = "derived"
    /\ is_v2(arg.token)
    /\ arg.token.video_hash = Some([prefixed |-> FALSE, hex |-> "zero"])
    /\ ~IsNone(arg.token.uri)
    /\ ret.token_cid = None

IsCidText(text) == text \in {"Qm1", "Qm2", "bafy1", "bafy2", "z1"}

\* C16: normalize_cid never raises; on text that cannot be parsed as a
\* content identifier it returns the text unchanged, and
\* get_thumbnail_filename always yields a filename.
C16_NormalizeNeverRaises ==
    /\ phase = "normalized"
          => /\ ~ret.once.raised
             /\ ~IsCidText(arg.cid) => ret.once.value = arg.cid
    /\ phase = "named"
          => /\ ~ret.filename.raised
             /\ ~IsCidText(arg.cid)
                   => ret.filename.value =
                         "Blue_Railroad_Video_" \o arg.cid \o ".jpg"

\* malformed text came back unchanged
C16_Witness ==
    /\ phase = "normalized"
    /\ arg.cid = "bafy1x"
    /\ ret.once = [raised |-> FALSE, value |-> "bafy1x"]

----------------------------------------------------------------------------
(* The matching functions and their arguments *)

----------------------------------------------------------------------------
(***************************************************************************)
(* submission.py: reading submission pages                                 *)
(*                                                                         *)
(* mwparserfromhell is modelled on pages whose templates are closed and    *)
(* not nested: a template runs from its "T" or "P" to the next "}}", its   *)
(* parameters are the pieces between "|", a parameter with "=" has the     *)
(* trimmed text before the first "=" as its name, Template.has compares    *)
(* names exactly and Template.get returns the last parameter of a name.    *)
(***************************************************************************)

\* parsed.filter_templates(): [name, body] in page order
RECURSIVE Templates(_, _)
Templates(text, from) ==
    LET opens == {i \in from..Len(text) :
                     text[i] \in {"T", "P"} /\ CloseAt(text, i + 1) # {}}
    IN  IF opens = {} THEN <<>>
        ELSE LET i == Min(opens)
                 e == Min(CloseAt(text, i + 1))
             IN  <<[name |-> text[i], body |-> Slice(text, i + 1, e - 1)]>>
                 \o Templates(text, e + 2)

Max(S) == CHOOSE x \in S : \A y \in S : x >= y

\* the parameter that starts after the "|" at p
ParamAt(body, p) ==
    LET bars == {q \in (p + 1)..Len(body) : body[q] = "|"}
        seg == Slice(body, p + 1, IF bars = {} THEN Len(body) ELSE Min(bars) - 1)
        eqs == {q \in 1..Len(seg) : seg[q] = "="}
    IN  IF eqs = {} THEN [named |-> FALSE, name |-> "", value |-> ""]
        ELSE [named |-> TRUE,
              name |-> JoinText(Strip(Slice(seg, 1, Min(eqs) - 1))),
              value |-> JoinText(Strip(Slice(seg, Min(eqs) + 1, Len(seg))))]

\* submission.py: _get_template_param
get_template_param(body, param_name) ==
    LET at == {p \in 1..Len(body) :
                  /\ body[p] = "|"
                  /\ ParamAt(body, p).named
                  /\ ParamAt(body, p).name = param_name}
    IN  IF at = {} THEN None ELSE Some(ParamAt(body, Max(at)).value)

\* int(block_height_str) when block_height_str.isdigit()
DigitsValue(str) ==
    CASE str = "100" -> Some(100)
      [] str = "200" -> Some(200)
      [] OTHER -> None

\* the loop over the templates, lines 178-203
RECURSIVE ParseTemplates(_, _)
ParseTemplates(acc, templates) ==
    IF templates = <<>> THEN acc
    ELSE LET template == Head(templates)
             block_height_str == get_template_param(template.body, "block_height")
             wallet == get_template_param(template.body, "wallet")
             next ==
                IF template.name = "T"
                THEN [acc EXCEPT
                        !.block_height =
                            IF Truthy(block_height_str)
                               /\ ~IsNone(DigitsValue(block_height_str[1]))
                            THEN DigitsValue(block_height_str[1]) ELSE @,
                        !.ipfs_cid = get_template_param(template.body, "ipfs_cid")]
                ELSE IF Truthy(wallet) /\ wallet[1] \notin Range(acc.participants)
                THEN [acc EXCEPT !.participants = Append(@, wallet[1])]
                ELSE acc
         IN  ParseTemplates(next, Tail(templates))

\* submission.py: parse_submission_content (the attributes the engine reads)
parse_submission_content(text, submission_id) ==
    ParseTemplates([id |-> submission_id, block_height |-> None,
                    ipfs_cid |-> None, participants |-> <<>>],
                   Templates(text, 1))

\* submission.py: fetch_all_submissions; pages exist for the ids of IdStr only
RECURSIVE FetchFrom(_, _)
FetchFrom(ps, i) ==
    IF i > Len(IdStr) THEN <<>>
    ELSE LET content == get_page_content(ps, get_submission_page_title(i))
         IN  (IF IsNone(content) THEN <<>>
              ELSE <<parse_submission_content(content[1], i)>>)
             \o FetchFrom(ps, i + 1)

fetch_all_submissions(ps) == FetchFrom(ps, 1)

\* the loop of sync_submission_cids_from_tokens, lines 508-525
RECURSIVE SyncLoop(_, _, _, _, _)
SyncLoop(acc, matches, tokens, subs, failing) ==
    IF matches = <<>> THEN acc
    ELSE LET sub_id == Head(matches).k
             first_token_id == IdStr[Head(matches).v[1]]
             found == {i \in 1..Len(subs) : subs[i].id = sub_id}
             sub == subs[Min(found)]
             token_cid == ipfs_cid(DictVal(tokens, first_token_id))
             Rest(next) == SyncLoop(next, Tail(matches), tokens, subs, failing)
         IN  IF found = {} \/ ~DictHas(tokens, first_token_id)
                \/ ~Truthy(token_cid)
             THEN Rest(acc)
             ELSE IF sub.ipfs_cid # token_cid
             THEN Bind(update_submission_cid(acc.w, sub_id, token_cid[1], failing),
                       LAMBDA out :
                          Rest([w |-> out.w,
                                results |-> Append(acc.results, out.result)]))
             ELSE Rest(acc)

\* submission.py: sync_submission_cids_from_tokens
sync_submission_cids_from_tokens(w, tokens, subs, ens, failing) ==
    Bind(match_tokens_by_blockheight_and_participant(tokens, subs, ens),
         LAMBDA matches :
            SyncLoop([w |-> w, results |-> <<>>], matches, tokens, subs, failing))

----------------------------------------------------------------------------
(***************************************************************************)
(* leaderboard.py.  A LeaderboardConfig is [page, title, description,      *)
(* filter_song_id, filter_owner, sort].  A page is the sequence of its     *)
(* lines with the line breaks between them.                                *)
(***************************************************************************)

BURN_ADDRESS == "0x000000000000000000000000000000000000dead"

\* str(int) of a count or rank
CountStr(n) == IF n = 0 THEN "0" ELSE IdStr[n]

\* filter_tokens that compares the owner as it is spelled
RECURSIVE FilterTokensExactCase(_, _, _)
FilterTokensExactCase(toks, filter_song_id, filter_owner) ==
    IF toks = <<>> THEN <<>>
    ELSE LET token == Head(toks).v
             skip == \/ token.owner = BURN_ADDRESS
                     \/ (Truthy(filter_song_id) /\ token.song_id # filter_song_id)
                     \/ (Truthy(filter_owner)
                         /\ Lower(token.owner) # Lower(filter_owner[1]))
         IN  (IF skip THEN <<>> ELSE <<Head(toks)>>)
             \o FilterTokensExactCase(Tail(toks), filter_song_id, filter_owner)

\* leaderboard.py: filter_tokens with exclude_burned
RECURSIVE filter_tokens(_, _, _)
filter_tokens(toks, filter_song_id, filter_owner) ==
    IF toks = <<>> THEN <<>>
    ELSE LET token == Head(toks).v
             skip == \/ (token.owner # "" /\ Lower(token.owner) = BURN_ADDRESS)
                     \/ (Truthy(filter_song_id) /\ token.song_id # filter_song_id)
                     \/ (Truthy(filter_owner)
                         /\ Lower(token.owner) # Lower(filter_owner[1]))
         IN  (IF skip THEN <<>> ELSE <<Head(toks)>>)
             \o filter_tokens(Tail(toks), filter_song_id, filter_owner)

\* add_token without the test that the oldest date is unset
AddTokenUnsetIsOldest(stats, token_id, date, v2) ==
    [stats EXCEPT
        !.token_count = @ + 1,
        !.token_ids = Append(@, token_id),
        !.token_versions = DictSet(@, token_id, v2),
        !.newest_date = IF date # 0 /\ date > @ THEN date ELSE @,
        !.oldest_date = IF date # 0 /\ date < @ THEN date ELSE @]

\* models.py: OwnerStats.add_token
add_token(stats, token_id, date, v2) ==
    [stats EXCEPT
        !.token_count = @ + 1,
        !.token_ids = Append(@, token_id),
        !.token_versions = DictSet(@, token_id, v2),
        !.newest_date = IF date # 0 /\ date > @ THEN date ELSE @,
        !.oldest_date = IF date # 0 /\ (@ = 0 \/ date < @) THEN date ELSE @]

\* date_val = token.date if token.date else (token.blockheight or 0)
DateVal(token) ==
    IF ~IsNone(token.date) /\ token.date[1] # 0 THEN token.date[1]
    ELSE IF ~IsNone(token.blockheight) THEN token.blockheight[1]
    ELSE 0

\* the loop of calculate_owner_stats
RECURSIVE OwnerStatsLoop(_, _)
OwnerStatsLoop(stats, toks) ==
    IF toks = <<>> THEN stats
    ELSE LET token == Head(toks).v
             fresh == [address |-> token.owner,
                       display_name |-> token.owner_display,
                       token_count |-> 0, token_ids |-> <<>>,
                       token_versions |-> <<>>, newest_date |-> 0,
                       oldest_date |-> 0]
             prior == IF DictHas(stats, token.owner)
                      THEN DictVal(stats, token.owner) ELSE fresh
             next ==
                IF token.owner = "" \/ Lower(token.owner) = BURN_ADDRESS
                THEN stats
                ELSE DictSet(stats, token.owner,
                             add_token(prior, token.token_id, DateVal(token),
                                       is_v2(token)))
         IN  OwnerStatsLoop(next, Tail(toks))

\* leaderboard.py: calculate_owner_stats
calculate_owner_stats(toks) == OwnerStatsLoop(<<>>, toks)

\* sorted() is stable: x goes behind every element whose key is not larger;
\* an item is [major, minor, val], ordered by major and then minor
RECURSIVE InsertStable(_, _)
InsertStable(x, sorted) ==
    IF sorted = <<>> THEN <<x>>
    ELSE IF \/ Head(sorted).major < x.major
            \/ (Head(sorted).major = x.major /\ Head(sorted).minor <= x.minor)
    THEN <<Head(sorted)>> \o InsertStable(x, Tail(sorted))
    ELSE <<x>> \o sorted

RECURSIVE SortedStable(_)
SortedStable(list) ==
    IF list = <<>> THEN <<>>
    ELSE InsertStable(list[Len(list)], SortedStable(SubSeq(list, 1, Len(list) - 1)))

\* the values of a sorted item list
Values(items) == [i \in 1..Len(items) |-> items[i].val]

\* sort_owners with the oldest date as the key, unset or not
SortOwnersUnsetFirst(stats, sort_by) ==
    LET st(i) == stats[i].v
        item(i) ==
            IF sort_by = "newest"
            THEN [major |-> 0, minor |-> 0 - st(i).newest_date, val |-> stats[i].k]
            ELSE IF sort_by = "oldest"
            THEN [major |-> 0, minor |-> st(i).oldest_date, val |-> stats[i].k]
            ELSE [major |-> 0, minor |-> 0 - st(i).token_count, val |-> stats[i].k]
    IN  Values(SortedStable([i \in 1..Len(stats) |-> item(i)]))

\* leaderboard.py: sort_owners; reverse=True is the descending stable
\* order, and an unset oldest date counts as float('inf')
sort_owners(stats, sort_by) ==
    LET st(i) == stats[i].v
        item(i) ==
            IF sort_by = "newest"
            THEN [major |-> 0, minor |-> 0 - st(i).newest_date, val |-> stats[i].k]
            ELSE IF sort_by = "oldest"
            THEN [major |-> IF st(i).oldest_date = 0 THEN 1 ELSE 0,
                  minor |-> st(i).oldest_date, val |-> stats[i].k]
            ELSE [major |-> 0, minor |-> 0 - st(i).token_count, val |-> stats[i].k]
    IN  Values(SortedStable([i \in 1..Len(stats) |-> item(i)]))

\* leaderboard.py: get_recent_tokens_with_video (the limit of 10 exceeds
\* every token mapping here)
get_recent_tokens_with_video(toks) ==
    LET with_video == SelectSeq([i \in 1..Len(toks) |-> toks[i].v],
                                LAMBDA t : Truthy(ipfs_cid(t)))
        sort_key(t) == IF ~IsNone(t.blockheight) /\ t.blockheight[1] # 0
                       THEN t.blockheight[1]
                       ELSE IF ~IsNone(t.date) THEN t.date[1] ELSE 0
    IN  Values(SortedStable([i \in 1..Len(with_video) |->
                   [major |-> 0, minor |-> 0 - sort_key(with_video[i]),
                    val |-> with_video[i]]]))

\* ", ".join(token_links) of one owner
RECURSIVE TokenLinks(_, _)
TokenLinks(ids, versions) ==
    IF ids = <<>> THEN ""
    ELSE LET tid == IdStr[Head(ids)]
             link == "[[Blue Railroad Token " \o tid \o "|#" \o tid \o "]] ("
                     \o (IF DictVal(versions, tid) THEN "V2" ELSE "V1") \o ")"
         IN  IF Len(ids) = 1 THEN link
             ELSE link \o ", " \o TokenLinks(Tail(ids), versions)

\* the table rows, lines 149-164
RECURSIVE LeaderboardRows(_, _, _)
LeaderboardRows(owners, stats, rank) ==
    IF owners = <<>> THEN <<>>
    ELSE LET st == DictVal(stats, Head(owners))
             sorted_ids == Sorted([i \in 1..Len(st.token_ids) |->
                                      IntOf(st.token_ids[i])])
         IN  <<"|-",
               "| " \o CountStr(rank) \o " || " \o st.display_name \o " || "
               \o CountStr(st.token_count) \o " || "
               \o TokenLinks(sorted_ids, st.token_versions)>>
             \o LeaderboardRows(Tail(owners), stats, rank + 1)

\* the gallery entries, lines 178-183
RECURSIVE GalleryLines(_)
GalleryLines(toks) ==
    IF toks = <<>> THEN <<>>
    ELSE LET token == Head(toks)
         IN  <<"=== [[Blue Railroad Token " \o token.token_id \o "|Token #"
               \o token.token_id \o "]] ===",
               "'''" \o token.owner \o "'''",
               "",
               "{{#ev:videolink|https://gateway.pinata.cloud/ipfs/"
               \o ipfs_cid(token)[1] \o "|320}}",
               "">>
             \o GalleryLines(Tail(toks))

\* "\n".join(lines)
RECURSIVE JoinLines(_)
JoinLines(lines) ==
    IF Len(lines) <= 1 THEN lines
    ELSE <<Head(lines), "\n">> \o JoinLines(Tail(lines))

\* leaderboard.py: generate_leaderboard_content
generate_leaderboard_content(tokens, config) ==
    LET filtered == filter_tokens(tokens, config.filter_song_id, config.filter_owner)
        owner_stats == calculate_owner_stats(filtered)
        sorted_owners == sort_owners(owner_stats, config.sort)
        gallery_tokens == get_recent_tokens_with_video(filtered)
    IN  JoinLines(
            <<"'''" \o config.title \o "''' tracks ownership of [[Blue Railroad]] NFT tokens.">>
            \o (IF config.description # "" THEN <<"", config.description>> ELSE <<>>)
            \o (IF Truthy(config.filter_song_id)
                THEN <<"", "'''Exercise:''' Exercise ID " \o config.filter_song_id[1]>>
                ELSE <<>>)
            \o <<"",
                 "''This page is automatically generated. See [[PickiPedia:BlueRailroadConfig|bot configuration]] to modify.''",
                 "",
                 "== Statistics ==",
                 "* '''Total Tokens:''' " \o CountStr(Len(filtered)),
                 "* '''Total Holders:''' " \o CountStr(Len(owner_stats)),
                 "",
                 "== Leaderboard ==",
                 "{| class=wikitable sortable",
                 "! Rank !! Holder !! Tokens !! Token IDs">>
            \o LeaderboardRows(sorted_owners, owner_stats, 1)
            \o <<"|}">>
            \o (IF gallery_tokens # <<>>
                THEN <<"", "== Recent Workouts ==", "">> \o GalleryLines(gallery_tokens)
                ELSE <<>>)
            \o <<"[[Category:Blue Railroad]]", "[[Category:Leaderboards]]">>)

----------------------------------------------------------------------------
(***************************************************************************)
(* importer.py: BlueRailroadImporter.run with generate_thumbnails off.     *)
(* ImportResults is [token_pages, leaderboard_pages, submission_pages].    *)
(* The configuration is the value load_config returns: its sources and     *)
(* its leaderboards.                                                       *)
(***************************************************************************)

\* importer.py: ImportResults.errors
errors(results) ==
    LET all == results.token_pages \o results.leaderboard_pages
               \o results.submission_pages
        failed == SelectSeq(all, LAMBDA r : r.action = "error")
    IN  [i \in 1..Len(failed) |->
            failed[i].page_title \o ": " \o failed[i].message]

\* the for loops of run have no break: the items after one result
RemainingUntilError(item_result, rest) ==
    IF item_result.action = "error" THEN <<>> ELSE rest

RemainingItems(item_result, rest) == rest

\* token_submission_map[str(tid)] = sub_id, lines 274-277
RECURSIVE MapTokenIds(_, _, _)
MapTokenIds(acc, token_ids, sub_id) ==
    IF token_ids = <<>> THEN acc
    ELSE MapTokenIds(DictSet(acc, IdStr[Head(token_ids)], sub_id),
                     Tail(token_ids), sub_id)

RECURSIVE TokenSubmissionMap(_, _)
TokenSubmissionMap(acc, token_to_submission) ==
    IF token_to_submission = <<>> THEN acc
    ELSE TokenSubmissionMap(
            MapTokenIds(acc, Head(token_to_submission).v,
                        Head(token_to_submission).k),
            Tail(token_to_submission))

\* the token page loop, lines 285-292
RECURSIVE ImportTokens(_, _, _, _, _)
ImportTokens(acc, toks, token_submission_map, pinned, failing) ==
    IF toks = <<>> THEN acc
    ELSE LET key == Head(toks).k
             submission_id == IF DictHas(token_submission_map, key)
                              THEN Some(DictVal(token_submission_map, key))
                              ELSE None
         IN  Bind(import_token(acc.w, Head(toks).v, submission_id, pinned, failing),
                  LAMBDA out :
                     ImportTokens([w |-> out.w,
                                   results |-> Append(acc.results, out.result)],
                                  RemainingItems(out.result, Tail(toks)),
                                  token_submission_map, pinned, failing))

\* the submission page loop, lines 310-317
RECURSIVE UpdateSubmissions(_, _, _)
UpdateSubmissions(acc, token_to_submission, failing) ==
    IF token_to_submission = <<>> THEN acc
    ELSE Bind(update_submission_token_ids(acc.w, Head(token_to_submission).k,
                                          Head(token_to_submission).v, failing),
              LAMBDA out :
                 UpdateSubmissions([w |-> out.w,
                                    results |-> Append(acc.results, out.result)],
                                   RemainingItems(out.result,
                                                  Tail(token_to_submission)),
                                   failing))

\* importer.py: BlueRailroadImporter.generate_leaderboard
generate_leaderboard(w, tokens, config, failing) ==
    save_page(w, config.page, generate_leaderboard_content(tokens, config),
              failing)

\* the leaderboard loop, lines 331-333
RECURSIVE GenerateLeaderboards(_, _, _, _)
GenerateLeaderboards(acc, tokens, leaderboards, failing) ==
    IF leaderboards = <<>> THEN acc
    ELSE Bind(generate_leaderboard(acc.w, tokens, Head(leaderboards), failing),
              LAMBDA out :
                 GenerateLeaderboards([w |-> out.w,
                                       results |-> Append(acc.results, out.result)],
                                      tokens,
                                      RemainingItems(out.result, Tail(leaderboards)),
                                      failing))

\* if cid_sync_results: all_submissions = fetch_all_submissions(self.wiki)
ReloadNeeded(cid_sync_results) == cid_sync_results # <<>>

\* importer.py: BlueRailroadImporter.run; the matching calls get no name
\* table.  The result holds the world left, the ImportResults, the mapping
\* the run matched, the results of the pre-pass and the submissions the
\* match was computed from.
run(w, snapshot, config, pinned, failing) ==
    Bind(aggregate_tokens_from_sources(snapshot, config.sources), LAMBDA tokens :
    Bind(fetch_all_submissions(w.pages), LAMBDA loaded :
    Bind(sync_submission_cids_from_tokens(w, tokens, loaded, <<>>, failing),
         LAMBDA sync :
    Bind(IF ReloadNeeded(sync.results) THEN fetch_all_submissions(sync.w.pages)
         ELSE loaded, LAMBDA all_submissions :
    Bind(MatchForRun(tokens, all_submissions), LAMBDA token_to_submission :
    Bind(TokenSubmissionMap(<<>>, token_to_submission),
         LAMBDA token_submission_map :
    Bind(ImportTokens([w |-> sync.w, results |-> <<>>], tokens,
                      token_submission_map, pinned, failing),
         LAMBDA token_pages :
    Bind(UpdateSubmissions([w |-> token_pages.w, results |-> <<>>],
                           token_to_submission, failing),
         LAMBDA submission_pages :
    Bind(GenerateLeaderboards([w |-> submission_pages.w, results |-> <<>>],
                              tokens, config.leaderboards, failing),
         LAMBDA leaderboard_pages :
        [w |-> leaderboard_pages.w,
         results |-> [token_pages |-> token_pages.results,
                      leaderboard_pages |-> leaderboard_pages.results,
                      submission_pages |-> sync.results
                                           \o submission_pages.results],
         all_tokens |-> tokens,
         token_to_submission |-> token_to_submission,
         cid_sync_results |-> sync.results,
         all_submissions |-> all_submissions,
         reloaded |-> ReloadNeeded(sync.results)])))))))))

----------------------------------------------------------------------------
(* Specification of the import run: a snapshot, a configuration and a wiki *)
(* that persists saves, then one run and, after it, a second run with the  *)
(* same snapshot, configuration and pinned predicate.                      *)

\* records of the snapshot under blueRailroadV2s
RunCurrentData ==
    { [owner |-> "0xAA", date |-> None, uri |-> None,
       blockheight |-> Some(100), videoHash |-> Hash("d1")],
      [owner |-> "0xbb", date |-> None, uri |-> None,
       blockheight |-> Some(100), videoHash |-> Hash("d2")] }

\* the record of the snapshot under blueRailroads
RunLegacyData ==
    [owner |-> "0xAA", date |-> Some(20240101),
     uri |-> Some([scheme |-> "ipfs", rest |-> "bafy1"]),
     blockheight |-> None, videoHash |-> None]

\* snapshots: current records by ascending id, the legacy record of token
\* 1, and the name table
Snapshots ==
    {[blueRailroadV2s |-> v2,
      blueRailroads |-> <<[k |-> "1", v |-> RunLegacyData]>>,
      ensToAddress |-> <<[k |-> "a.eth", v |-> "0xAA"]>>] :
        v2 \in {d \in DictsUpTo(TokenIds, RunCurrentData, MaxTokens) :
                   \A i, j \in 1..Len(d) : i < j => IntOf(d[i].k) < IntOf(d[j].k)}}

LeaderboardConfig(page, sort) ==
    [page |-> page, title |-> page, description |-> "",
     filter_song_id |-> None, filter_owner |-> None, sort |-> sort]

\* the configuration: both sources, and two leaderboards whose pages are
\* distinct and are no token or submission page
Configs ==
    {[sources |-> <<"blueRailroadV2s", "blueRailroads">>,
      leaderboards |-> <<LeaderboardConfig("Leaderboard", "count"),
                         LeaderboardConfig("Newest", "newest")>>]}

\* submission pages as posted: a closed submission template and one
\* participant template; the last page gives its status twice
RunSubmissionPages ==
    { <<"T", "\n", "|", "block_height", "=", "100", "\n", "}", "}">>
         \o Participant("0xaa"),
      <<"T", "\n", "|", "block_height", "=", "100", "\n",
        "|", "ipfs_cid", "=", "Qm2", "\n", "}", "}">>
         \o Participant("a.eth"),
      <<"T", "\n", "|", "ipfs_cid", "=", "Qm1", "\n",
        "|", "status", "=", "Pending", "\n", "}", "}">>
         \o Participant("0xbb"),
      <<"T", "\n", "|", "status", "=", "Pending", "\n",
        "|", "block_height", "=", "100", "\n",
        "|", "ipfs_cid", "=", "Qm2", "\n",
        "|", "status", "=", "Pending", "\n", "}", "}">>
         \o Participant("0xaa") }

\* the submission pages of a wiki: each id has a page or none
SubmissionWikis ==
    {[i \in 1..Len(l) |-> [k |-> get_submission_page_title(l[i].k), v |-> l[i].v]] :
        l \in {d \in DictsUpTo(1..MaxSubs, RunSubmissionPages, MaxSubs) :
                  \A i, j \in 1..Len(d) : i < j => d[i].k < d[j].k}}

\* a token page of an earlier owner with text of a user behind the template
StaleTokenPage ==
    <<"K", "\n", "|", "owner", "=", "0xOLD", "\n", "}", "}", "\n", "x", "\n">>

\* the token pages of a wiki: none, or a stale page per token id
TokenWikis ==
    { <<>>,
      [i \in 1..MaxTokens |->
          [k |-> "Blue Railroad Token " \o IdStr[i], v |-> StaleTokenPage]] }

\* the sets of titles whose save fails during one run
FailingSets ==
    { {}, {"Blue Railroad Token 1"}, {"Blue Railroad Submission/1"},
      {"Leaderboard"} }

InitRun ==
    /\ phase = "input"
    /\ chain_data \in Snapshots
    /\ arg \in [config : Configs, pinned : {{"Qm1"}}]
    /\ \E s \in SubmissionWikis, t \in TokenWikis : pages = s \o t
    /\ save_calls = <<>>
    /\ ret = <<>>
    /\ sources = <<>>
    /\ all_tokens = <<>>
    /\ submissions = <<>>
    /\ ens_mapping = <<>>
    /\ result = <<>>
    /\ wikitext = <<>>
    /\ field_name = ""
    /\ field_value = <<>>
    /\ out1 = None
    /\ out2 = None

runFrame ==
    <<chain_data, arg, sources, ens_mapping, wikitext, field_name,
      field_value>>

\* one run against the wiki as it stands; submissions are the submissions
\* as loaded at its start, out1 the results of the pre-pass, out2 the
\* submissions the match was computed from
RunOnce(failing) ==
    \E out \in {run([pages |-> pages, calls |-> <<>>], chain_data, arg.config,
                    arg.pinned, failing)} :
        /\ pages' = out.w.pages
        /\ save_calls' = out.w.calls
        /\ ret' = Append(ret, out.results)
        /\ all_tokens' = out.all_tokens
        /\ submissions' = fetch_all_submissions(pages)
        /\ result' = out.token_to_submission
        /\ out1' = out.cid_sync_results
        /\ out2' = [all_submissions |-> out.all_submissions,
                    reloaded |-> out.reloaded]
        /\ UNCHANGED runFrame

\* the first run
Run ==
    /\ phase = "input"
    /\ phase' = "ran"
    /\ \E failing \in FailingSets : RunOnce(failing)

\* the second run, after a first run without error results; the store
\* accepts every save
RunAgain ==
    /\ phase = "ran"
    /\ errors(ret[1]) = <<>>
    /\ phase' = "ran_again"
    /\ RunOnce({})

NextRun == Run \/ RunAgain

SpecRun == InitRun /\ [][NextRun]_vars

\* the ImportResults of the latest run
LastResults == ret[Len(ret)]

\* every result of the latest run, in the order errors() reads them
AllResults ==
    LastResults.token_pages \o LastResults.leaderboard_pages
    \o LastResults.submission_pages

\* C18: a run produces exactly one token-page result per aggregated token
\* and one leaderboard result per configured leaderboard, whatever results
\* earlier pages returned, and ImportResults.errors lists exactly the
\* results with action 'error' of the token, leaderboard and submission pages.
C18_EveryItemAttempted ==
    phase \in {"ran", "ran_again"} =>
        /\ Len(LastResults.token_pages) = Len(all_tokens)
        /\ \A i \in 1..Len(all_tokens) :
              LastResults.token_pages[i].page_title
                 = "Blue Railroad Token " \o all_tokens[i].k
        /\ Len(LastResults.leaderboard_pages) = Len(arg.config.leaderboards)
        /\ \A i \in 1..Len(arg.config.leaderboards) :
              LastResults.leaderboard_pages[i].page_title
                 = arg.config.leaderboards[i].page
        /\ LET failed == {i \in 1..Len(AllResults) : AllResults[i].action = "error"}
               line(i) == AllResults[i].page_title \o ": " \o AllResults[i].message
           IN  /\ Len(errors(LastResults)) = Cardinality(failed)
               /\ Range(errors(LastResults)) = {line(i) : i \in failed}

\* the first token page returned 'error', and the later token page and both
\* leaderboards were still attempted
C18_Witness ==
    /\ phase = "ran"
    /\ Len(LastResults.token_pages) >= 2
    /\ LastResults.token_pages[1].action = "error"
    /\ LastResults.token_pages[2].action \in {"created", "updated"}
    /\ Len(LastResults.leaderboard_pages) = 2
    /\ errors(LastResults) = <<"Blue Railroad Token 1: save failed">>

\* every result of an ImportResults
ResultsOf(results) ==
    results.token_pages \o results.leaderboard_pages \o results.submission_pages

\* C19: after one complete run without error results, a second run with
\* the same snapshot, configuration and pinned predicate against the wiki
\* the first run left changes no page's text, and every token, submission
\* and leaderboard result of it is 'unchanged'.
C19_SecondRunWritesNothing ==
    [][(phase = "ran" /\ phase' = "ran_again") =>
          /\ pages' = pages
          /\ \A i \in 1..Len(ResultsOf(ret'[2])) :
                ResultsOf(ret'[2])[i].action = "unchanged"]_vars

\* the first run updated a token page and a submission page and created a
\* leaderboard; the second run reported on pages of all three kinds and
\* called save_page, with the text the page already had
C19_Witness ==
    /\ phase = "ran_again"
    /\ \E i \in 1..Len(ret[1].token_pages) :
          ret[1].token_pages[i].action = "updated"
    /\ \E i \in 1..Len(ret[1].submission_pages) :
          ret[1].submission_pages[i].action = "updated"
    /\ \E i \in 1..Len(ret[1].leaderboard_pages) :
          ret[1].leaderboard_pages[i].action = "created"
    /\ ret[2].token_pages # <<>>
    /\ ret[2].submission_pages # <<>>
    /\ ret[2].leaderboard_pages # <<>>
    /\ save_calls # <<>>

\* chain_data.py: load_ens_mapping
load_ens_mapping(snapshot) ==
    IF "ensToAddress" \in DOMAIN snapshot THEN snapshot["ensToAddress"] ELSE <<>>

\* a participant of sub is a name of the snapshot's table that resolves to
\* the owner of token, and sub and token have the same block height
NamedOwner(sub, token) ==
    /\ ~IsNone(sub.block_height)
    /\ token.blockheight = sub.block_height
    /\ \E p \in Range(sub.participants) :
          /\ EndsWithEth(Lower(p))
          /\ DictHas(load_ens_mapping(chain_data), Lower(p))
          /\ Lower(DictVal(load_ens_mapping(chain_data), Lower(p)))
                = Lower(token.owner)

\* C20: a run resolves participant names with the snapshot's name table:
\* a submission whose participant is a name of that table is matched by the
\* run to the token with the same block height that the resolved address
\* owns (stated for a run with one token and one submission, where no other
\* candidate competes).
C20_NamesResolvedInRun ==
    (/\ phase = "ran"
     /\ Len(all_tokens) = 1
     /\ Len(submissions) = 1
     /\ NamedOwner(submissions[1], all_tokens[1].v))
    => /\ DictHas(result, submissions[1].id)
       /\ IntOf(all_tokens[1].k) \in Range(DictVal(result, submissions[1].id))

----------------------------------------------------------------------------
(* Specification of parse_token: one record of a snapshot, then its parse. *)

\* longest JSON list of a record
MaxItems == 2

\* what a snapshot holds under a numeric key: nothing, null, a number or a
\* list of numbers
JsonNumbers(numbers) ==
    {[present |-> FALSE, list |-> FALSE, items |-> <<>>]}
    \cup {[present |-> TRUE, list |-> FALSE, items |-> v] :
            v \in {None} \cup {Some(n) : n \in numbers}}
    \cup {[present |-> TRUE, list |-> TRUE, items |-> l] :
            l \in SeqsUpTo(numbers, MaxItems)}

\* the record with owner, at most a display name, and the numeric keys
RawToken(owner, display, song, date, height) ==
    LET json == [songId |-> song, date |-> date, blockheight |-> height]
        listed == {k \in DOMAIN json : json[k].list}
        keys == {"owner"} \cup {k \in DOMAIN json : json[k].present}
                \cup (IF display # None THEN {"ownerDisplay"} ELSE {})
                \cup (IF listed # {} THEN {"lists"} ELSE {})
    IN  [k \in keys |->
            CASE k = "owner" -> owner
              [] k = "ownerDisplay" -> display[1]
              [] k = "lists" -> listed
              [] OTHER -> json[k].items]

RawTokens ==
    {RawToken(o, d, s, t, h) :
        o \in {"0xAA"}, d \in {None, Some("alice.eth")},
        s \in JsonNumbers({0, 1}), t \in JsonNumbers({20240101}),
        h \in JsonNumbers({100})}

InitParse ==
    /\ phase = "input"
    /\ arg \in RawTokens
    /\ ret = <<>>
    /\ pages = <<>>
    /\ save_calls = <<>>
    /\ chain_data = <<>>
    /\ sources = <<>>
    /\ all_tokens = <<>>
    /\ submissions = <<>>
    /\ ens_mapping = <<>>
    /\ result = <<>>
    /\ wikitext = <<>>
    /\ field_name = ""
    /\ field_value = <<>>
    /\ out1 = None
    /\ out2 = None

\* parse_token('1', token_data, 'blueRailroads')
ParseToken ==
    /\ phase = "input"
    /\ phase' = "parsed"
    /\ ret' = parse_token("1", arg, "blueRailroads")
    /\ UNCHANGED <<arg, pages, save_calls, chain_data, sources, all_tokens,
                   submissions, ens_mapping, result, wikitext, field_name,
                   field_value, out1, out2>>

NextParse == ParseToken

SpecParse == InitParse /\ [][NextParse]_vars

\* what the unwrapping of the value under key is to give
Unwrapped(data, key) ==
    IF ~IsList(data, key) THEN Get(data, key)
    ELSE IF Len(data[key]) = 1 THEN Some(data[key][1])
    ELSE None

\* date and blockheight are the unwrapped values, and a record without
\* ownerDisplay shows its owner
DateHeightAndDisplayParsed ==
    phase = "parsed" =>
        /\ \A key \in {"date", "blockheight"} :
              (IsList(arg, key) => Len(arg[key]) <= 1)
                  => ret[key] = Unwrapped(arg, key)
        /\ "ownerDisplay" \notin DOMAIN arg => ret.owner_display = arg.owner

\* C28: parse_token gives, for songId, date and blockheight, the single item
\* of a one-item list, no value for an empty list and a scalar as it is (the
\* song id as its text), and a record without ownerDisplay gets its owner as
\* owner_display.
C28_UnwrapsSequences ==
    phase = "parsed" =>
        /\ DateHeightAndDisplayParsed
        /\ (IsList(arg, "songId") => Len(arg.songId) <= 1)
              => ret.song_id = LET song == Unwrapped(arg, "songId")
                               IN  IF IsNone(song) THEN None
                                   ELSE Some(CountStr(song[1]))

----------------------------------------------------------------------------
(* Specification of the leaderboard: a token mapping and a leaderboard     *)
(* configuration, then the filter, the owner statistics of the filtered or *)
(* of the whole mapping, and the sort of the owners.                       *)

\* most tokens of a leaderboard's token mapping
MaxOwned == 3

\* the burn address as snapshots spell it
BurnSpellings ==
    { BURN_ADDRESS, "0x000000000000000000000000000000000000dEaD",
      "0X000000000000000000000000000000000000DEAD" }

LeaderboardToken(owner, song_id, date, blockheight) ==
    [owner |-> owner, owner_display |-> owner, song_id |-> song_id,
     date |-> date, uri |-> None, blockheight |-> blockheight,
     video_hash |-> None]

\* tokens of three owners with a date, a block height, both or neither,
\* burned tokens, and a token without owner
LeaderboardTokens ==
    { LeaderboardToken("0xAA", None, Some(20240101), None),
      LeaderboardToken("0xAA", Some("1"), None, Some(100)),
      LeaderboardToken("0xbb", None, Some(20240102), Some(200)),
      LeaderboardToken("0xbb", None, None, None),
      LeaderboardToken("0xcc", None, None, Some(200)),
      LeaderboardToken("0x000000000000000000000000000000000000dEaD", None,
                       None, Some(100)),
      LeaderboardToken("0X000000000000000000000000000000000000DEAD", None,
                       Some(20240101), None),
      LeaderboardToken(BURN_ADDRESS, None, None, Some(200)),
      LeaderboardToken("", None, None, Some(100)) }

\* token mappings: the tokens "1", "2", ... in the order of their ids
LeaderboardTokenDicts ==
    {[i \in 1..Len(l) |->
        [k |-> IdStr[i],
         v |-> [token_id |-> IdStr[i],
                source_key |-> IF IsNone(l[i].blockheight)
                               THEN "blueRailroads" ELSE "blueRailroadV2s",
                owner |-> l[i].owner, owner_display |-> l[i].owner_display,
                song_id |-> l[i].song_id, date |-> l[i].date,
                uri |-> l[i].uri, blockheight |-> l[i].blockheight,
                video_hash |-> l[i].video_hash]]] :
     l \in SeqsUpTo(LeaderboardTokens, MaxOwned)}

LeaderboardConfigs ==
    {[page |-> "Leaderboard", title |-> "Leaderboard", description |-> "",
      filter_song_id |-> f.song, filter_owner |-> f.owner, sort |-> sort] :
        f \in {[song |-> None, owner |-> None],
               [song |-> Some("1"), owner |-> None],
               [song |-> None, owner |-> Some("0xAA")]},
        sort \in {"count", "newest", "oldest"}}

InitLeaderboard ==
    /\ phase = "input"
    /\ all_tokens \in LeaderboardTokenDicts
    /\ arg \in LeaderboardConfigs
    /\ ret = <<>>
    /\ result = <<>>
    /\ out1 = <<>>
    /\ out2 = <<>>
    /\ pages = <<>>
    /\ save_calls = <<>>
    /\ chain_data = <<>>
    /\ sources = <<>>
    /\ submissions = <<>>
    /\ ens_mapping = <<>>
    /\ wikitext = <<>>
    /\ field_name = ""
    /\ field_value = <<>>

leaderboardFrame ==
    <<all_tokens, arg, pages, save_calls, chain_data, sources, submissions,
      ens_mapping, wikitext, field_name, field_value>>

\* filtered = filter_tokens(tokens, config.filter_song_id, config.filter_owner)
FilterTokens ==
    /\ phase = "input"
    /\ phase' = "filtered"
    /\ ret' = filter_tokens(all_tokens, arg.filter_song_id, arg.filter_owner)
    /\ UNCHANGED <<result, out1, out2>>
    /\ UNCHANGED leaderboardFrame

\* calculate_owner_stats of the filtered tokens, or of the whole mapping;
\* result keeps the tokens it was given
CalculateOwnerStats ==
    /\ phase \in {"input", "filtered"}
    /\ phase' = "stats"
    /\ result' = (IF phase = "input" THEN all_tokens ELSE ret)
    /\ out1' = calculate_owner_stats(result')
    /\ UNCHANGED <<ret, out2>>
    /\ UNCHANGED leaderboardFrame

\* sort_owners(owner_stats, config.sort)
SortOwners ==
    /\ phase = "stats"
    /\ phase' = "sorted"
    /\ out2' = sort_owners(out1, arg.sort)
    /\ UNCHANGED <<ret, result, out1>>
    /\ UNCHANGED leaderboardFrame

NextLeaderboard == FilterTokens \/ CalculateOwnerStats \/ SortOwners

SpecLeaderboard == InitLeaderboard /\ [][NextLeaderboard]_vars

\* C21: filter_tokens keeps no token whose owner is a spelling of the burn
\* address, and calculate_owner_stats returns no statistics whose address
\* is one, of the filtered tokens or of any token mapping.
C21_NoBurnedOwner ==
    /\ phase # "input" =>
          \A i \in 1..Len(ret) : ret[i].v.owner \notin BurnSpellings
    /\ phase \in {"stats", "sorted"} =>
          \A i \in 1..Len(out1) :
              /\ out1[i].k \notin BurnSpellings
              /\ out1[i].v.address \notin BurnSpellings

\* the statistics of a mapping with a burned token in two spellings and a
\* token that is kept
C21_Witness ==
    /\ phase = "stats"
    /\ result = all_tokens
    /\ \E i, j \in 1..Len(result) :
          /\ result[i].v.owner = "0x000000000000000000000000000000000000dEaD"
          /\ result[j].v.owner = BURN_ADDRESS
    /\ out1 # <<>>

\* the statistics of an owner the sort returned
SortedStats(i) == DictVal(out1, out2[i])

\* C22: sort_owners returns each owner address once, 'newest' by newest
\* value descending, 'oldest' by oldest value ascending with every owner
\* whose oldest value is unset (0) behind all owners with a set value, any
\* other mode by token count descending.
C22_SortedByMode ==
    phase = "sorted" =>
        /\ Len(out2) = Len(out1)
        /\ Range(out2) = DictKeys(out1)
        /\ \A i, j \in 1..Len(out2) : i < j =>
              IF arg.sort = "newest"
              THEN SortedStats(i).newest_date >= SortedStats(j).newest_date
              ELSE IF arg.sort = "oldest"
              THEN \/ SortedStats(j).oldest_date = 0
                   \/ /\ SortedStats(i).oldest_date # 0
                      /\ SortedStats(i).oldest_date <= SortedStats(j).oldest_date
              ELSE SortedStats(i).token_count >= SortedStats(j).token_count

\* three owners sorted by 'oldest': the first of the statistics has no
\* oldest value and comes last
C22_Witness ==
    /\ phase = "sorted"
    /\ arg.sort = "oldest"
    /\ Len(out2) = 3
    /\ out1[1].v.oldest_date = 0
    /\ out2[3] = out1[1].k
    /\ SortedStats(1).oldest_date < SortedStats(2).oldest_date

\* the ranking value of a token: its date, else its block height, else 0
RankingValue(token) ==
    IF ~IsNone(token.date) THEN token.date[1]
    ELSE IF ~IsNone(token.blockheight) THEN token.blockheight[1]
    ELSE 0

\* the tokens of the mapping given to calculate_owner_stats that an owner
\* holds
TokensOf(owner) == SelectSeq(result, LAMBDA e : e.v.owner = owner)

\* the ranking values added for an owner that are not 0
NonZeroValues(owner) ==
    {RankingValue(TokensOf(owner)[i].v) : i \in 1..Len(TokensOf(owner))} \ {0}

\* C27: the statistics of an owner count the owner's tokens, and newest_date
\* and oldest_date are the largest and the smallest ranking value of these
\* tokens that is not 0, or 0 when there is none.
C27_RankingValues ==
    phase \in {"stats", "sorted"} =>
        \A i \in 1..Len(out1) :
            LET owner == out1[i].k
                stats == out1[i].v
            IN  /\ stats.token_count = Len(TokensOf(owner))
                /\ stats.token_count = Len(stats.token_ids)
                /\ stats.newest_date = IF NonZeroValues(owner) = {} THEN 0
                                       ELSE Max(NonZeroValues(owner))
                /\ stats.oldest_date = IF NonZeroValues(owner) = {} THEN 0
                                       ELSE Min(NonZeroValues(owner))

\* an owner whose later token has the smaller value, and an owner whose only
\* token has neither date nor block height
C27_Witness ==
    /\ phase = "stats"
    /\ \E i, j \in 1..Len(out1) :
          /\ out1[i].v.token_count = 2
          /\ RankingValue(TokensOf(out1[i].k)[1].v)
                > RankingValue(TokensOf(out1[i].k)[2].v)
          /\ out1[i].v.oldest_date < out1[i].v.newest_date
          /\ out1[j].v.token_count = 1
          /\ out1[j].v.newest_date = 0
          /\ out1[j].v.oldest_date = 0

----------------------------------------------------------------------------
(* The fields of a submission page as parse_submission_content reads them. *)

\* the value of a field of the submission template of a page, None when
\* the page has no such template or the template no such field
SubmissionField(text, name) ==
    LET ts == SelectSeq(Templates(text, 1), LAMBDA t : t.name = "T")
    IN  IF ts = <<>> THEN None
        ELSE get_template_param(ts[Len(ts)].body, name)

\* the page of a submission holds the token ids and, when there are any,
\* the status 'Minted'
HoldsTokenIds(ps, submission_id, token_ids) ==
    LET content == get_page_content(ps, get_submission_page_title(submission_id))
    IN  /\ ~IsNone(content)
        /\ SubmissionField(content[1], "token_ids")
              = Some(JoinIds(SortedSet(token_ids)))
        /\ token_ids # <<>> => SubmissionField(content[1], "status") = Some("Minted")

\* C23: update_submission_token_ids leaves the page with token_ids the given
\* ids in ascending order without duplicates and, when there are ids, the
\* status 'Minted'; on a page whose two fields hold these values already it
\* makes no save_page call and returns 'unchanged'.
C23_TokenIdsWritten ==
    [][(phase' = "written" /\ arg.op = "token_ids")
        => /\ ret'.action \in {"updated", "created"}
                => HoldsTokenIds(pages', arg.submission_id, arg.token_ids)
           /\ HoldsTokenIds(pages, arg.submission_id, arg.token_ids)
                => /\ ret'.action = "unchanged"
                   /\ save_calls' = save_calls
                   /\ pages' = pages]_vars

----------------------------------------------------------------------------
(* Strategy B when submissions share a lookup key, and the lists of both   *)
(* strategies.                                                             *)

\* C26: when two submissions of the list both produce the key (block height,
\* lowercased address) of a token and no submission behind them does,
\* Strategy B assigns the token to the later of the two and not to the
\* earlier.
C26_LaterSubmissionWins ==
    phase = "matched_bh" =>
        \A i, k \in 1..Len(submissions), j \in 1..Len(all_tokens) :
            (/\ i < k
             /\ Fits(submissions[i], all_tokens[j].v)
             /\ Fits(submissions[k], all_tokens[j].v)
             /\ \A l \in (k + 1)..Len(submissions) :
                   ~Fits(submissions[l], all_tokens[j].v))
            => /\ Assigned(result, submissions[k].id, IntOf(all_tokens[j].k))
               /\ ~Assigned(result, submissions[i].id, IntOf(all_tokens[j].k))

\* two submissions with literal addresses produce the key of a token, and
\* the token is in the list of the later one alone
C26_Witness ==
    /\ phase = "matched_bh"
    /\ Len(submissions) = 2
    /\ \A i \in 1..2 : \A p \in 1..Len(submissions[i].participants) :
          ~EndsWithEth(Lower(submissions[i].participants[p]))
    /\ \E j \in 1..Len(all_tokens) :
          /\ Fits(submissions[1], all_tokens[j].v)
          /\ Fits(submissions[2], all_tokens[j].v)
          /\ ListOf(result, submissions[2].id) = <<IntOf(all_tokens[j].k)>>
          /\ ~DictHas(result, submissions[1].id)

\* C29: in the mapping either strategy returns, the token-id lists of two
\* different submission ids have no id in common.
C29_ListsDisjoint ==
    phase \in {"matched_cid", "matched_bh", "matched_run"} =>
        \A a, b \in 1..Len(result) :
            a # b => /\ result[a].k # result[b].k
                     /\ Range(result[a].v) \cap Range(result[b].v) = {}

\* two submissions share one content id, two tokens carry it, and Strategy A
\* puts both tokens in the list of one submission
C29_Witness ==
    /\ phase = "matched_cid"
    /\ Len(submissions) = 2
    /\ Truthy(submissions[1].ipfs_cid)
    /\ submissions[1].ipfs_cid = submissions[2].ipfs_cid
    /\ Len(result) = 1
    /\ Len(result[1].v) = 2

----------------------------------------------------------------------------
(* The CID-sync pre-pass within a run.                                     *)

\* C24: the pre-pass of a run returns no result for, and so makes no write
\* to, a submission that was loaded with a non-empty content id.
C24_OnlyLackingGetCid ==
    phase \in {"ran", "ran_again"} =>
        \A i \in 1..Len(submissions) :
            Truthy(submissions[i].ipfs_cid) =>
                \A r \in 1..Len(out1) :
                    out1[r].page_title
                        # get_submission_page_title(submissions[i].id)

\* what Strategy B gives the pre-pass of the run: the tokens and the
\* submissions as loaded, and no name table
PrePassMatches ==
    match_tokens_by_blockheight_and_participant(all_tokens, submissions, <<>>)

\* the content id of the lowest-numbered token the pre-pass matched to a
\* submission
FirstTokenCid(sub_id) ==
    ipfs_cid(DictVal(all_tokens, IdStr[ListOf(PrePassMatches, sub_id)[1]]))

\* a submission loaded without content id whose first matched token has one
Bootstrapped(sub) ==
    /\ ~Truthy(sub.ipfs_cid)
    /\ ListOf(PrePassMatches, sub.id) # <<>>
    /\ Truthy(FirstTokenCid(sub.id))

\* the results the pre-pass returned for a submission
SyncResultsOf(sub_id) ==
    SelectSeq(out1, LAMBDA r : r.page_title = get_submission_page_title(sub_id))

\* the submission of an id in the list the match was computed from
Reloaded(sub_id) ==
    SelectSeq(out2.all_submissions, LAMBDA s : s.id = sub_id)

\* a submission behind sub_id in that list carries the content id
Shadowed(sub_id, cid) ==
    \E i, j \in 1..Len(out2.all_submissions) :
        /\ i < j
        /\ out2.all_submissions[i].id = sub_id
        /\ out2.all_submissions[j].ipfs_cid = cid

\* C25 as stated: in a run without error results the submissions are
\* reloaded exactly when the pre-pass returned a result, and a submission
\* without content id that Strategy B matches to a token with a content id
\* has that id when the match is computed and gets the token through
\* Strategy A.
C25_BootstrapInOneRun ==
    (phase \in {"ran", "ran_again"} /\ errors(ret[Len(ret)]) = <<>>) =>
        /\ out2.reloaded <=> out1 # <<>>
        /\ \A i \in 1..Len(submissions) :
              Bootstrapped(submissions[i]) =>
                  LET sub_id == submissions[i].id
                      token_id == ListOf(PrePassMatches, sub_id)[1]
                  IN  /\ Len(SyncResultsOf(sub_id)) = 1
                      /\ Reloaded(sub_id)[1].ipfs_cid = FirstTokenCid(sub_id)
                      /\ Assigned(match_tokens_to_submissions(
                                      all_tokens, out2.all_submissions),
                                  sub_id, token_id)
                      /\ Assigned(result, sub_id, token_id)

\* What the run keeps to: the submissions are reloaded exactly when the pre-pass
\* returned a result and the match is computed from the list then at hand;
\* a submission without content id whose lowest-numbered Strategy-B token
\* has a content id gets one pre-pass result and, unless that is an error,
\* reads the id in that list; Strategy A then gives the token to it unless
\* a later submission of the list carries the same id.
C25_BootstrapUnlessShadowed ==
    phase \in {"ran", "ran_again"} =>
        /\ out2.reloaded <=> out1 # <<>>
        /\ result = MatchForRun(all_tokens, out2.all_submissions)
        /\ \A i \in 1..Len(submissions) :
              Bootstrapped(submissions[i]) =>
                  LET sub_id == submissions[i].id
                      token_id == ListOf(PrePassMatches, sub_id)[1]
                      cid == FirstTokenCid(sub_id)
                  IN  /\ Len(SyncResultsOf(sub_id)) = 1
                      /\ SyncResultsOf(sub_id)[1].action \in {"updated", "error"}
                      /\ SyncResultsOf(sub_id)[1].action = "updated" =>
                            /\ Reloaded(sub_id)[1].ipfs_cid = cid
                            /\ result = match_tokens_to_submissions(
                                            all_tokens, out2.all_submissions)
                            /\ ~Shadowed(sub_id, cid) =>
                                  Assigned(result, sub_id, token_id)
                            /\ Shadowed(sub_id, cid) =>
                                  ~Assigned(result, sub_id, token_id)

\* a first run bootstraps a submission that was loaded without content id
\* and matches its token to it
BootstrappedAndMatched ==
    /\ phase = "ran"
    /\ \E i \in 1..Len(submissions) :
          /\ Bootstrapped(submissions[i])
          /\ SyncResultsOf(submissions[i].id)[1].action = "updated"
          /\ MatchForRun(all_tokens, submissions) # result
          /\ Assigned(result, submissions[i].id,
                      ListOf(PrePassMatches, submissions[i].id)[1])

\* the value of a field of the token template on the page of a token, None
\* when the page, the template or a value of the field is missing
TokenPageField(ps, token_key, name) ==
    LET content == get_page_content(ps, "Blue Railroad Token " \o token_key)
    IN  IF IsNone(content) THEN None
        ELSE LET m == TokenTemplateMatch(content[1])
             IN  IF ~m.found THEN None
                 ELSE TemplateValue(Slice(content[1], m.start, m.end), name)

\* the tokens of the lists of a match result
MatchedTokens(res) == UNION {Range(res[i].v) : i \in 1..Len(res)}

\* C30: after a run without error results, the page of every submission of
\* the match result has token_ids the ascending list of its matched tokens
\* and status 'Minted', the page of each of those tokens has that
\* submission as submission_id, and the page of every token outside the
\* match result has an empty submission_id.
C30_PagesAgreeWithMatch ==
    (phase \in {"ran", "ran_again"} /\ errors(ret[Len(ret)]) = <<>>) =>
        /\ \A i \in 1..Len(result) :
              LET content == get_page_content(pages,
                                 get_submission_page_title(result[i].k))
              IN  /\ ~IsNone(content)
                  /\ SubmissionField(content[1], "token_ids")
                        = Some(JoinIds(SortedSet(result[i].v)))
                  /\ SubmissionField(content[1], "status") = Some("Minted")
                  /\ \A tid \in Range(result[i].v) :
                        TokenPageField(pages, IdStr[tid], "submission_id")
                           = Some(IdStr[result[i].k])
        /\ \A j \in 1..Len(all_tokens) :
              IntOf(all_tokens[j].k) \notin MatchedTokens(result) =>
                  TokenPageField(pages, all_tokens[j].k, "submission_id")
                     \in {None, Some("")}

====
